--------------------------- MODULE SnapshotProofs ---------------------------
(***************************************************************************)
(* Why a snapshot is what it promises, and why no update is lost.          *)
(*                                                                         *)
(* A version that has been committed is installed, or it is pending: of a  *)
(* transaction that holds its write lock until it is installed.  What is   *)
(* pending when a snapshot is taken is above a complete snapshot, and so   *)
(* is all that is drawn later, so the installed versions up to it are all  *)
(* there will ever be.  And what is locked has no pending version of       *)
(* another transaction: once validated, it stays the newest.               *)
(*                                                                         *)
(* Garbage collection takes what is older than a version that all threads' *)
(* timestamps have passed; the snapshot of a running transaction is no     *)
(* older than the timestamp of its own thread.                             *)
(***************************************************************************)
EXTENDS Snapshot, FiniteSetTheorems, SequenceTheorems, WellFoundedInduction,
        TLAPS

-----------------------------------------------------------------------------
(***************************************************************************)
(* Numbers.                                                                *)
(***************************************************************************)

(***************************************************************************)
(* A nonempty set of numbers has a least one.                              *)
(***************************************************************************)
LEMMA LeastNatural ==
  ASSUME NEW S, S \subseteq Nat, S # {}
  PROVE  \E n \in S : \A m \in S : n <= m
<1> DEFINE Less == OpToRel(<, Nat)
<1>1. IsWellFoundedOn(Less, Nat)
  BY NatLessThanWellFounded, Zenon
<1> HIDE DEF Less
<1>2. \E n \in S : \A m \in S : ~(<<m, n>> \in Less)
  BY <1>1, WFMin
<1>3. \A m, n \in Nat : m < n => <<m, n>> \in Less
  BY DEF Less, OpToRel
<1>4. PICK n \in S : \A m \in S : ~(<<m, n>> \in Less)
  BY <1>2
<1>5. \A m \in S : n <= m
  <2> SUFFICES ASSUME NEW m \in S PROVE n <= m
    OBVIOUS
  <2>1. m \in Nat /\ n \in Nat
    BY <1>4
  <2>2. ~(m < n)
    BY <1>3, <1>4, <2>1
  <2> QED
    BY <2>1, <2>2
<1> QED
  BY <1>5

(***************************************************************************)
(* One that is bounded has a greatest one, which MaxOf finds.              *)
(***************************************************************************)
LEMMA GreatestNatural ==
  ASSUME NEW b \in Nat, NEW S, S \subseteq 0..b, S # {}
  PROVE  MaxOf(S) \in S /\ \A y \in S : MaxOf(S) >= y
<1> DEFINE T == {b - x : x \in S}
<1>0. \A x \in S : x \in Nat /\ x <= b /\ b - x \in Nat
  <2> SUFFICES ASSUME NEW x \in S PROVE x \in Nat /\ x <= b /\ b - x \in Nat
    OBVIOUS
  <2>1. x \in 0..b
    OBVIOUS
  <2> QED
    BY <2>1
<1>1. T \subseteq Nat /\ T # {}
  BY <1>0
<1> HIDE DEF T
<1>2. PICK n \in T : \A m \in T : n <= m
  BY <1>1, LeastNatural
<1>3. PICK x \in S : n = b - x
  BY <1>2 DEF T
<1>4. \A y \in S : x >= y
  <2> SUFFICES ASSUME NEW y \in S PROVE x >= y
    OBVIOUS
  <2>1. b - y \in T
    BY DEF T
  <2>2. b - x <= b - y
    BY <1>2, <1>3, <2>1
  <2> QED
    BY <1>0, <2>2
<1> QED
  BY <1>4 DEF MaxOf

(***************************************************************************)
(* What is greatest is what MaxOf finds.                                   *)
(***************************************************************************)
LEMMA MaxIs ==
  ASSUME NEW S, S \subseteq Nat, NEW x \in S, \A y \in S : x >= y
  PROVE  MaxOf(S) = x
<1>1. \A z \in S : (\A y \in S : z >= y) => z = x
  OBVIOUS
<1> QED
  BY <1>1 DEF MaxOf

(***************************************************************************)
(* The newest of a set of timestamps up to one.                            *)
(***************************************************************************)
IsNewestUpTo(x, S, ts) ==
  /\ x = 0 \/ (x \in S /\ x <= ts)
  /\ \A v \in S : v <= ts => v <= x

(***************************************************************************)
(* NewestUpTo is determined by IsNewestUpTo.                               *)
(***************************************************************************)
LEMMA NewestIs ==
  ASSUME NEW S, S \subseteq Nat, NEW ts \in Int, NEW x \in Nat, IsNewestUpTo(x, S, ts)
  PROVE  NewestUpTo(S, ts) = x
<1> DEFINE T == {0} \cup {v \in S : v <= ts}
<1>0. \A y : y \in T <=> y = 0 \/ (y \in S /\ y <= ts)
  OBVIOUS
<1>1. T \subseteq Nat /\ x \in T /\ \A y \in T : x >= y
  <2>1. \A y \in T : y \in Nat
    BY <1>0
  <2>2. x \in T
    BY <1>0 DEF IsNewestUpTo
  <2>3. \A y \in T : y = 0 \/ y <= x
    BY <1>0 DEF IsNewestUpTo
  <2> HIDE DEF T
  <2>4. ASSUME NEW y \in T PROVE x >= y
    <3>1. y \in Nat /\ (y = 0 \/ y <= x)
      BY <2>1, <2>3
    <3> QED
      BY <3>1
  <2> QED
    BY <2>1, <2>2, <2>4
<1>2. NewestUpTo(S, ts) = MaxOf(T)
  BY DEF NewestUpTo
<1> HIDE DEF T
<1> QED
  BY <1>1, <1>2, MaxIs

(***************************************************************************)
(* There always is a newest timestamp up to one.                           *)
(***************************************************************************)
LEMMA NewestExists ==
  ASSUME NEW S, S \subseteq Nat, NEW ts \in Int
  PROVE  NewestUpTo(S, ts) \in Nat /\ IsNewestUpTo(NewestUpTo(S, ts), S, ts)
<1> DEFINE T == {0} \cup {v \in S : v <= ts}
           b == IF ts < 0 THEN 0 ELSE ts
<1>3. \A x : x \in T <=> x = 0 \/ (x \in S /\ x <= ts)
  OBVIOUS
<1>1. b \in Nat /\ T \subseteq 0..b /\ T # {}
  <2>1. b \in Nat /\ 0 \in T
    BY <1>3
  <2>2. ASSUME NEW x \in T PROVE x \in 0..b
    <3>1. CASE x = 0
      BY <2>1, <3>1
    <3>2. CASE x # 0
      <4>1. x \in Nat /\ x <= ts
        BY <1>3, <3>2
      <4> QED
        BY <4>1
    <3> QED
      BY <3>1, <3>2
  <2> QED
    BY <2>1, <2>2
<1>2. NewestUpTo(S, ts) = MaxOf(T)
  BY DEF NewestUpTo
<1> HIDE DEF T, b
<1>4. MaxOf(T) \in T /\ \A y \in T : MaxOf(T) >= y
  BY <1>1, GreatestNatural
<1>5. ASSUME NEW y \in T PROVE y \in Nat
  <2>1. y = 0 \/ y \in S
    BY <1>3
  <2>2. 0 \in Nat
    OBVIOUS
  <2> QED
    BY <2>1, <2>2, Zenon
<1> QED
  BY <1>2, <1>3, <1>4, <1>5 DEF IsNewestUpTo

(***************************************************************************)
(* A set of positions that contains, with each of them, all before it.     *)
(***************************************************************************)
LEMMA Beginning ==
  ASSUME NEW n \in Nat, NEW S \in SUBSET (1..n), \A i \in S : 1..i \subseteq S
  PROVE  Cardinality(S) \in 0..n /\ S = 1..Cardinality(S)
<1>1. \A m \in Nat : IsFiniteSet(1..m) /\ Cardinality(1..m) = m
  <2> TAKE m \in Nat
  <2>1. 1 \in Int /\ m \in Int /\ (IF 1 > m THEN 0 ELSE m - 1 + 1) = m
    OBVIOUS
  <2> QED
    BY <2>1, FS_Interval
<1>2. CASE S = {}
  <2>1. Cardinality(S) = 0
    BY <1>2, FS_EmptySet
  <2> QED
    BY <1>2, <2>1
<1>3. CASE S # {}
  <2>1. S \subseteq 0..n
    OBVIOUS
  <2> DEFINE k == MaxOf(S)
  <2>2. k \in S /\ \A i \in S : k >= i
    BY <1>3, <2>1, GreatestNatural
  <2> HIDE DEF k
  <2>3. k \in 1..n /\ k \in Nat
    BY <2>2
  <2>4. \A i \in S : i \in 1..n /\ i <= k
    BY <2>2, <2>3
  <2>5. S = 1..k
    <3>1. \A i \in S : i \in 1..k
      BY <2>3, <2>4
    <3>2. 1..k \subseteq S
      BY <2>2
    <3> QED
      BY <3>1, <3>2
  <2>6. Cardinality(S) = k
    BY <1>1, <2>3, <2>5
  <2> QED
    BY <2>3, <2>5, <2>6
<1> QED
  BY <1>2, <1>3
-----------------------------------------------------------------------------
(***************************************************************************)
(* Version lists.                                                          *)
(***************************************************************************)
Descends(h) == \A i, j \in DOMAIN h : i < j => h[i] > h[j]

(***************************************************************************)
(* ReadAccess finds the newest version of the list up to the timestamp.    *)
(***************************************************************************)
LEMMA VersionIs ==
  ASSUME NEW h \in Seq(Nat), Descends(h), NEW ts \in Nat
  PROVE  VersionAt(h, ts) \in Nat /\ IsNewestUpTo(VersionAt(h, ts), Range(h), ts)
<1>1. DOMAIN h = 1..Len(h) /\ Len(h) \in Nat /\ \A i \in DOMAIN h : h[i] \in Nat
  BY LenProperties, ElementOfSeq
<1>2. CASE ~ \E i \in DOMAIN h : h[i] <= ts
  <2>1. VersionAt(h, ts) = 0
    BY <1>2 DEF VersionAt
  <2>2. \A v \in Range(h) : ~(v <= ts)
    BY <1>2 DEF Range
  <2> QED
    BY <2>1, <2>2 DEF IsNewestUpTo
<1>3. CASE \E i \in DOMAIN h : h[i] <= ts
  <2> DEFINE P(i) == h[i] <= ts /\ \A j \in 1..(i - 1) : h[j] > ts
             S == {i \in DOMAIN h : h[i] <= ts}
             k == CHOOSE i \in DOMAIN h : P(i)
  <2>0. S \subseteq Nat /\ S # {}
    BY <1>1, <1>3
  <2>1. \E i \in S : \A j \in S : i <= j
    <3> HIDE DEF S
    <3> QED
      BY <2>0, LeastNatural
  <2>2. \E i \in DOMAIN h : P(i)
    <3>1. PICK i \in S : \A j \in S : i <= j
      BY <2>1
    <3>2. ASSUME NEW j \in 1..(i - 1) PROVE h[j] > ts
      <4>1. j \in DOMAIN h /\ j < i
        BY <1>1, <3>1
      <4>2. ~(h[j] <= ts)
        BY <1>1, <3>1, <4>1
      <4> QED
        BY <1>1, <4>1, <4>2
    <3> QED
      BY <3>1, <3>2
  <2>3. k \in DOMAIN h /\ P(k)
    BY <2>2
  <2>4. VersionAt(h, ts) = h[k]
    BY <1>3 DEF VersionAt
  <2> HIDE DEF k
  <2>5. ASSUME NEW j \in DOMAIN h, h[j] <= ts PROVE h[j] <= h[k]
    <3>1. ~(j < k)
      BY <1>1, <2>3, <2>5
    <3>2. j = k \/ k < j
      BY <1>1, <2>3, <3>1
    <3> QED
      BY <1>1, <2>3, <3>2 DEF Descends
  <2>6. h[k] \in Nat /\ h[k] \in Range(h) /\ \A v \in Range(h) : v <= ts => v <= h[k]
    BY <1>1, <2>3, <2>5 DEF Range
  <2> QED
    BY <2>3, <2>4, <2>6 DEF IsNewestUpTo
<1> QED
  BY <1>2, <1>3

(***************************************************************************)
(* A new version becomes the head of the list.                             *)
(***************************************************************************)
LEMMA Pushed ==
  ASSUME NEW h \in Seq(Nat), Descends(h), NEW x \in Nat, \A v \in Range(h) : v < x
  PROVE  /\ <<x>> \o h \in Seq(Nat) /\ Descends(<<x>> \o h) /\ <<x>> \o h # <<>>
         /\ (<<x>> \o h)[1] = x /\ Range(<<x>> \o h) = Range(h) \cup {x}
<1> DEFINE g == <<x>> \o h
<1>1. /\ DOMAIN h = 1..Len(h) /\ Len(h) \in Nat /\ \A i \in DOMAIN h : h[i] \in Nat
      /\ <<x>> \in Seq(Nat) /\ Len(<<x>>) = 1 /\ <<x>>[1] = x
  BY LenProperties, ElementOfSeq
<1>2. /\ g \in Seq(Nat) /\ Len(g) = Len(h) + 1
      /\ \A i \in 1..(Len(h) + 1) : g[i] = IF i <= 1 THEN <<x>>[i] ELSE h[i - 1]
  BY <1>1, ConcatProperties
<1>3. DOMAIN g = 1..(Len(h) + 1)
  BY <1>2, LenProperties
<1> HIDE DEF g
<1>4. g[1] = x /\ \A i \in 1..Len(h) : g[i + 1] = h[i] /\ i + 1 \in DOMAIN g
  BY <1>1, <1>2, <1>3
<1>5. 1 \in DOMAIN g /\ \A i \in DOMAIN g : i = 1 \/ (i - 1 \in DOMAIN h /\ g[i] = h[i - 1])
  <2>1. 1 \in DOMAIN g
    BY <1>1, <1>3
  <2>2. ASSUME NEW i \in DOMAIN g, i # 1 PROVE i - 1 \in DOMAIN h /\ g[i] = h[i - 1]
    <3>1. i \in 1..(Len(h) + 1) /\ i - 1 \in 1..Len(h) /\ ~(i <= 1)
      BY <1>1, <1>3, <2>2
    <3> QED
      BY <1>1, <1>2, <3>1
  <2> QED
    BY <2>1, <2>2
<1>6. Range(g) = Range(h) \cup {x}
  BY <1>1, <1>4, <1>5 DEF Range
<1>7. ASSUME NEW i \in DOMAIN g, NEW j \in DOMAIN g, i < j PROVE g[i] > g[j]
  <2>1. j # 1 /\ j - 1 \in DOMAIN h /\ g[j] = h[j - 1] /\ g[j] \in Nat
    BY <1>1, <1>3, <1>5, <1>7
  <2>2. CASE i = 1
    <3>1. g[j] \in Range(h)
      BY <2>1 DEF Range
    <3> QED
      BY <1>4, <2>1, <2>2, <3>1
  <2>3. CASE i # 1
    <3>1. i - 1 \in DOMAIN h /\ g[i] = h[i - 1] /\ i - 1 < j - 1
      BY <1>3, <1>5, <1>7, <2>3
    <3> QED
      BY <2>1, <3>1 DEF Descends
  <2> QED
    BY <2>2, <2>3
<1>8. g # <<>>
  BY <1>5
<1> QED
  BY <1>2, <1>4, <1>6, <1>7, <1>8 DEF g, Descends

(***************************************************************************)
(* ClearHistory leaves the head, and of what it takes a version that is    *)
(* newer and still older than the timestamp it is given.                   *)
(***************************************************************************)
LEMMA Cleared ==
  ASSUME NEW h \in Seq(Nat), Descends(h), h # <<>>, NEW ts \in Nat
  PROVE  LET g == ClearHistory(h, ts)
         IN  /\ g \in Seq(Nat) /\ Descends(g) /\ g # <<>> /\ g[1] = h[1]
             /\ Range(g) \subseteq Range(h)
             /\ \A v \in Range(h) :
                  v \in Range(g) \/ \E w \in Range(g) : v < w /\ w < ts
<1> DEFINE n == Len(h)
           S == {i \in 1..(n - 1) : h[i] >= ts}
           k == Cardinality(S)
           g == SubSeq(h, 1, 1 + k)
<1>1. /\ DOMAIN h = 1..n /\ n \in Nat /\ n >= 1 /\ \A i \in DOMAIN h : h[i] \in Nat
  BY LenProperties, ElementOfSeq, EmptySeq
<1>2. k \in 0..(n - 1) /\ S = 1..k
  <2>1. n - 1 \in Nat /\ S \in SUBSET (1..(n - 1))
    BY <1>1
  <2>2. ASSUME NEW i \in S PROVE 1..i \subseteq S
    <3>1. ASSUME NEW j \in 1..i, j # i PROVE j \in S
      <4>1. i \in DOMAIN h /\ j \in DOMAIN h /\ j < i /\ h[i] >= ts /\ j \in 1..(n - 1)
        BY <1>1, <2>1, <3>1
      <4>2. h[j] > h[i] /\ h[i] \in Nat /\ h[j] \in Nat
        BY <1>1, <4>1 DEF Descends
      <4> QED
        BY <4>1, <4>2
    <3> QED
      BY <3>1
  <2> HIDE DEF S, n
  <2> QED
    BY <2>1, <2>2, Beginning
<1>3. ClearHistory(h, ts) = g
  BY DEF ClearHistory, NewerThan
<1> HIDE DEF k
<1>4. /\ g \in Seq(Nat) /\ Len(g) = 1 + k /\ DOMAIN g = 1..(1 + k)
      /\ \A i \in 1..(1 + k) : g[i] = h[i]
  <2>1. 1 \in 1..(n + 1) /\ 1 + k \in 0..n /\ 1 + k >= 1 /\ k \in Nat
    BY <1>1, <1>2
  <2>2. \A i \in 1..n : h[i] \in Nat
    BY <1>1
  <2> QED
    BY <2>1, <2>2, LenProperties
<1> HIDE DEF g
<1>5. \A i \in 1..(1 + k) : i \in DOMAIN h
  BY <1>1, <1>2
<1>6. Descends(g) /\ g # <<>> /\ g[1] = h[1] /\ Range(g) \subseteq Range(h)
  <2>1. 1 \in DOMAIN g
    BY <1>2, <1>4
  <2> QED
    BY <1>4, <1>5, <2>1 DEF Descends, Range
<1>7. ASSUME NEW i \in DOMAIN h, h[i] \notin Range(g)
      PROVE  h[1 + k] \in Range(g) /\ h[i] < h[1 + k] /\ h[1 + k] < ts
  <2>1. ~(i \in 1..(1 + k))
    BY <1>4, <1>7 DEF Range
  <2>2. i \in 1..n /\ i > 1 + k /\ 1 + k \in 1..(n - 1) /\ 1 + k \in 1..(1 + k)
    BY <1>1, <1>2, <2>1
  <2>3. 1 + k \notin S
    <3>1. k \in Nat /\ S = 1..k
      BY <1>2
    <3> HIDE DEF S
    <3> QED
      BY <3>1
  <2>4. ~(h[1 + k] >= ts) /\ 1 + k \in DOMAIN h
    BY <1>1, <2>2, <2>3
  <2>5. h[i] < h[1 + k]
    BY <1>1, <2>2, <2>4 DEF Descends
  <2>6. h[1 + k] \in Range(g)
    BY <1>4, <2>2 DEF Range
  <2> QED
    BY <1>1, <2>4, <2>5, <2>6
<1>8. ASSUME NEW v \in Range(h)
      PROVE  v \in Range(g) \/ \E w \in Range(g) : v < w /\ w < ts
  <2>1. PICK i \in DOMAIN h : v = h[i]
    BY <1>8 DEF Range
  <2> QED
    BY <1>7, <2>1
<1> QED
  BY <1>3, <1>4, <1>6, <1>8
-----------------------------------------------------------------------------
(***************************************************************************)
(* Types, and what the program counters say.                               *)
(***************************************************************************)
Pc == {"idle", "exec", "read", "lock", "draw", "install", "release", "undo",
       "done"}

Entry == [record : Record \cup {0}, type : AccessType, ts : Nat,
          saw : {Unread} \cup Nat]

TxnType == [procedure : Procedures \cup {<<>>}, start : {Unread} \cup Nat,
            complete : BOOLEAN, ts : {Unread} \cup Nat, accesses : Seq(Entry),
            locked : SUBSET Nat, done : SUBSET Nat, commitTs : Nat]

CommitType == [ts : Nat, start : {Unread} \cup Nat, complete : BOOLEAN,
               saw : SUBSET (Record \X Nat), wrote : SUBSET Record]

TypeInv ==
  /\ SnapshotConstants
  /\ scheme \in Scheme
  /\ latest \in [Record -> Nat] /\ written \in [Record -> SUBSET Nat]
  /\ monotone \in Nat \ {0} /\ threadTs \in [Thread -> Nat]
  /\ isFinish \in BOOLEAN /\ pc \in [Thread -> Pc]
  /\ left \in [Thread -> 0..Batch] /\ txn \in [Thread -> TxnType]
  /\ committed \in SUBSET CommitType

(***************************************************************************)
(* The access list follows the procedure, the loops stay inside the access *)
(* list, and each scheme has its own program counters.                     *)
(***************************************************************************)
Running(t) == pc[t] \notin {"idle", "done"}

Follows(x) ==
  /\ Len(x.accesses) <= Len(x.procedure)
  /\ \A i \in DOMAIN x.accesses :
       /\ x.accesses[i].record = x.procedure[i].record
       /\ x.accesses[i].type = x.procedure[i].type
       /\ x.accesses[i].type # "INSERT_ONLY" => x.accesses[i].saw \in Nat

LoopOf(t) ==
  /\ txn[t].locked \subseteq ToLock(t)
  /\ pc[t] \in {"exec", "read", "lock", "draw"} => txn[t].done = {}
  /\ pc[t] \in {"exec", "read", "undo"} => txn[t].locked = {}
  /\ pc[t] \in {"draw", "install"} => txn[t].locked = ToLock(t)
  /\ pc[t] = "install" => txn[t].done \subseteq ToInstall(t)
  /\ pc[t] = "release" => txn[t].done \subseteq txn[t].locked
  /\ pc[t] = "undo" => txn[t].done \subseteq ToLock(t)

PcOf(t) ==
  /\ ~Running(t) => txn[t] = NoTxn
  /\ pc[t] # "done" => left[t] > 0
  /\ Running(t) => /\ txn[t].procedure \in Procedures
                   /\ txn[t].start = Unread <=> ~HasSnapshot(t)
  /\ Follows(txn[t])
  /\ pc[t] = "lock" => scheme # "SILOCK"
  /\ pc[t] \in {"draw", "undo"} => scheme = "SILOCK"
  /\ pc[t] \in {"lock", "install", "release"} /\ scheme = "MVOCC" =>
       ~HasSnapshot(t)
  /\ pc[t] = "read" => /\ scheme = "MVOCC" /\ ~HasSnapshot(t)
                       /\ Len(txn[t].accesses) < Len(txn[t].procedure)
                       /\ Access(t).type # "INSERT_ONLY" /\ txn[t].ts \in Nat
  /\ pc[t] \in {"exec", "read", "lock", "draw", "undo"} => txn[t].commitTs = 0
  /\ pc[t] = "install" => txn[t].commitTs > 0

TsOf(t) == threadTs[t] < monotone /\ txn[t].commitTs < monotone

StateInv == TypeInv /\ \A t \in Thread : PcOf(t) /\ LoopOf(t) /\ TsOf(t)

(***************************************************************************)
(* An idle thread has an empty transaction.                                *)
(***************************************************************************)
LEMMA NoTxnType ==
  /\ NoTxn \in TxnType /\ NoTxn.accesses = <<>> /\ NoTxn.locked = {}
  /\ NoTxn.done = {} /\ NoTxn.commitTs = 0 /\ NoTxn.start = Unread
  /\ Follows(NoTxn) /\ DOMAIN NoTxn.accesses = {}
<1>1. <<>> \in Seq(Entry) /\ Len(<<>>) = 0 /\ DOMAIN <<>> = {}
  BY EmptySeq
<1>2. NoTxn = [procedure |-> <<>>, start |-> -1, complete |-> FALSE, ts |-> -1,
               accesses |-> <<>>, locked |-> {}, done |-> {}, commitTs |-> 0]
  BY DEF NoTxn, Unread
<1> QED
  BY <1>1, <1>2 DEF TxnType, Unread, Follows

(***************************************************************************)
(* The access list is a sequence as long as the procedure at most.         *)
(***************************************************************************)
LEMMA AccessesOf ==
  ASSUME StateInv, NEW t \in Thread
  PROVE  /\ Len(txn[t].accesses) \in Nat
         /\ DOMAIN txn[t].accesses = 1..Len(txn[t].accesses)
         /\ \A i \in DOMAIN txn[t].accesses :
              /\ txn[t].accesses[i] \in Entry
              /\ txn[t].accesses[i].type # "INSERT_ONLY" =>
                   txn[t].accesses[i].record \in Record
         /\ \A i, j \in DOMAIN txn[t].accesses :
              /\ txn[t].accesses[i].type # "INSERT_ONLY"
              /\ txn[t].accesses[i].record = txn[t].accesses[j].record
              => i = j
<1>1. txn[t].accesses \in Seq(Entry) /\ PcOf(t) /\ SnapshotConstants
  BY DEF StateInv, TypeInv, TxnType
<1>2. /\ Len(txn[t].accesses) \in Nat
      /\ DOMAIN txn[t].accesses = 1..Len(txn[t].accesses)
      /\ \A i \in DOMAIN txn[t].accesses : txn[t].accesses[i] \in Entry
  BY <1>1, LenProperties, ElementOfSeq
<1>3. CASE ~Running(t)
  <2>1. DOMAIN txn[t].accesses = {}
    BY <1>1, <1>3, NoTxnType DEF PcOf
  <2> QED
    BY <1>2, <2>1
<1>4. CASE Running(t)
  <2>1. txn[t].procedure \in Procedures /\ IsProcedure(txn[t].procedure)
    BY <1>1, <1>4 DEF PcOf, SnapshotConstants
  <2> DEFINE p == txn[t].procedure
  <2>2. Len(p) \in Nat /\ DOMAIN p = 1..Len(p)
    BY <2>1, LenProperties DEF IsProcedure
  <2>3. \A i \in DOMAIN txn[t].accesses :
          /\ i \in DOMAIN p /\ txn[t].accesses[i].record = p[i].record
          /\ txn[t].accesses[i].type = p[i].type
    BY <1>1, <1>2, <2>2 DEF PcOf, Follows
  <2>4. /\ \A i \in DOMAIN p : p[i].record = 0 <=> p[i].type = "INSERT_ONLY"
        /\ \A i, j \in DOMAIN p : p[i].record = p[j].record => i = j \/ p[i].record = 0
    BY <2>1 DEF IsProcedure
  <2> HIDE DEF p
  <2>5. \A i \in DOMAIN txn[t].accesses : txn[t].accesses[i].record \in Record \cup {0}
    BY <1>2 DEF Entry
  <2>6. ASSUME NEW i \in DOMAIN txn[t].accesses, txn[t].accesses[i].type # "INSERT_ONLY"
        PROVE  /\ txn[t].accesses[i].record \in Record
               /\ \A j \in DOMAIN txn[t].accesses :
                    txn[t].accesses[i].record = txn[t].accesses[j].record => i = j
    <3>1. txn[t].accesses[i].record # 0
      BY <2>3, <2>4, <2>6
    <3>2. txn[t].accesses[i].record \in Record
      BY <2>5, <3>1
    <3>3. \A j \in DOMAIN txn[t].accesses :
            txn[t].accesses[i].record = txn[t].accesses[j].record => i = j
      BY <2>3, <2>4, <3>1
    <3> QED
      BY <3>2, <3>3
  <2> QED
    BY <1>2, <2>6
<1> QED
  BY <1>3, <1>4

(***************************************************************************)
(* The loops run through sets of entries, to the last.                     *)
(***************************************************************************)
LEMMA FirstIn ==
  ASSUME StateInv, NEW t \in Thread, NEW S, S \subseteq DOMAIN txn[t].accesses, S # {}
  PROVE  FirstOf(t, S) \in S
<1>1. /\ DOMAIN txn[t].accesses \subseteq Nat
      /\ \A i \in S : txn[t].accesses[i] \in Entry
  BY AccessesOf
<1>2. CASE scheme = "SILOCK"
  <2>1. PICK i \in S : \A j \in S : i <= j
    BY <1>1, LeastNatural
  <2> QED
    BY <1>2, <2>1 DEF FirstOf
<1>3. CASE scheme # "SILOCK"
  <2> DEFINE R == {txn[t].accesses[i].record : i \in S}
  <2>0. Record \subseteq Nat /\ 0 \in Nat
    BY DEF StateInv, TypeInv, SnapshotConstants
  <2>4. ASSUME NEW i \in S PROVE txn[t].accesses[i].record \in Nat
    <3>1. txn[t].accesses[i].record \in Record \cup {0}
      BY <1>1 DEF Entry
    <3> QED
      BY <2>0, <3>1
  <2>1. R \subseteq Nat /\ R # {}
    BY <2>4
  <2> HIDE DEF R
  <2>2. PICK n \in R : \A m \in R : n <= m
    BY <2>1, LeastNatural
  <2>3. PICK i \in S : n = txn[t].accesses[i].record
    BY <2>2 DEF R
  <2>5. \A j \in S : txn[t].accesses[i].record <= txn[t].accesses[j].record
    BY <2>2, <2>3 DEF R
  <2> QED
    BY <1>3, <2>5 DEF FirstOf
<1> QED
  BY <1>2, <1>3

(***************************************************************************)
(* An access puts an entry at the end of the list.                         *)
(***************************************************************************)
NewEntry(t, ts, saw) ==
  [record |-> Access(t).record, type |-> Access(t).type, ts |-> ts, saw |-> saw]

Appended(t, e) ==
  LET n == Len(txn[t].accesses) + 1
  IN  /\ e \in Entry /\ (e.type # "INSERT_ONLY" => e.record \in Record)
      /\ txn'[t].procedure = txn[t].procedure /\ txn'[t].start = txn[t].start
      /\ txn'[t].complete = txn[t].complete /\ txn'[t].ts = txn[t].ts
      /\ txn'[t].locked = txn[t].locked /\ txn'[t].done = txn[t].done
      /\ txn'[t].commitTs = txn[t].commitTs
      /\ DOMAIN txn'[t].accesses = DOMAIN txn[t].accesses \cup {n}
      /\ n \notin DOMAIN txn[t].accesses /\ txn'[t].accesses[n] = e
      /\ \A i \in DOMAIN txn[t].accesses :
           txn'[t].accesses[i] = txn[t].accesses[i]
      /\ Follows(txn'[t])

(***************************************************************************)
(* What a new access does to the transaction and its access list.          *)
(***************************************************************************)
LEMMA Accessed ==
  ASSUME StateInv, NEW t \in Thread, Running(t),
         Len(txn[t].accesses) < Len(txn[t].procedure),
         NEW ts \in Nat, NEW saw \in {Unread} \cup Nat,
         Access(t).type # "INSERT_ONLY" => saw \in Nat, NewAccess(t, ts, saw)
  PROVE  LET e == NewEntry(t, ts, saw)
         IN  /\ e.saw = saw /\ e.ts = ts
             /\ e.record = Access(t).record /\ e.type = Access(t).type
             /\ txn' \in [Thread -> TxnType]
             /\ \A u \in Thread : u # t => txn'[u] = txn[u]
             /\ Appended(t, e)
<1> DEFINE n == Len(txn[t].accesses) + 1
           e == NewEntry(t, ts, saw)
           p == txn[t].procedure
<1>1. txn[t] \in TxnType /\ txn[t].accesses \in Seq(Entry) /\ Follows(txn[t])
  BY DEF StateInv, TypeInv, TxnType, PcOf
<1>2. Len(txn[t].accesses) \in Nat /\ DOMAIN txn[t].accesses = 1..Len(txn[t].accesses)
  BY AccessesOf
<1>3. p \in Procedures /\ IsProcedure(p)
  BY DEF StateInv, TypeInv, PcOf, SnapshotConstants
<1>4. /\ Len(p) \in Nat /\ DOMAIN p = 1..Len(p)
      /\ \A i \in DOMAIN p : p[i] \in [record : Record \cup {0}, type : AccessType]
  <2> DEFINE E == [record : Record \cup {0}, type : AccessType]
  <2>1. p \in Seq(E)
    BY <1>3 DEF IsProcedure
  <2> HIDE DEF E, p
  <2>2. Len(p) \in Nat /\ DOMAIN p = 1..Len(p)
    BY <2>1, LenProperties
  <2>3. \A i \in 1..Len(p) : p[i] \in E
    BY <2>1, ElementOfSeq
  <2> QED
    BY <2>2, <2>3 DEF E
<1>5. n \in DOMAIN p /\ Access(t) = p[n]
  BY <1>2, <1>4 DEF Access
<1>6. Access(t).record \in Record \cup {0} /\ Access(t).type \in AccessType
  BY <1>4, <1>5
<1>7. Access(t).type # "INSERT_ONLY" => Access(t).record \in Record
  BY <1>3, <1>5, <1>6 DEF IsProcedure
<1>8. e \in Entry /\ e.saw = saw /\ e.ts = ts /\ e.record = Access(t).record
      /\ e.type = Access(t).type
  BY <1>6 DEF NewEntry, Entry
<1>9. txn' = [txn EXCEPT ![t].accesses = Append(@, e)]
  BY DEF NewAccess, NewEntry
<1> HIDE DEF e
<1>10. /\ Append(txn[t].accesses, e) \in Seq(Entry)
       /\ Len(Append(txn[t].accesses, e)) = n
       /\ \A i \in 1..Len(txn[t].accesses) :
            Append(txn[t].accesses, e)[i] = txn[t].accesses[i]
       /\ Append(txn[t].accesses, e)[n] = e
  BY <1>1, <1>8, AppendProperties
<1>11. DOMAIN Append(txn[t].accesses, e) = 1..n
  BY <1>10, LenProperties
<1>12. txn'[t] = [txn[t] EXCEPT !.accesses = Append(txn[t].accesses, e)]
       /\ \A u \in Thread : u # t => txn'[u] = txn[u]
  BY <1>9 DEF StateInv, TypeInv
<1>13. txn' \in [Thread -> TxnType]
  <2>1. txn'[t] \in TxnType
    BY <1>1, <1>10, <1>12 DEF TxnType
  <2> QED
    BY <1>9, <2>1 DEF StateInv, TypeInv
<1>14. /\ txn'[t].procedure = txn[t].procedure /\ txn'[t].start = txn[t].start
       /\ txn'[t].complete = txn[t].complete /\ txn'[t].ts = txn[t].ts
       /\ txn'[t].locked = txn[t].locked /\ txn'[t].done = txn[t].done
       /\ txn'[t].commitTs = txn[t].commitTs
       /\ txn'[t].accesses = Append(txn[t].accesses, e)
  BY <1>1, <1>12 DEF TxnType
<1>15. 1..n = (1..Len(txn[t].accesses)) \cup {n} /\ n \notin 1..Len(txn[t].accesses)
  BY <1>2
<1>16. Follows(txn'[t])
  <2>1. Len(txn'[t].accesses) <= Len(txn'[t].procedure)
    BY <1>2, <1>4, <1>5, <1>10, <1>14
  <2>2. ASSUME NEW i \in DOMAIN txn'[t].accesses
        PROVE  /\ txn'[t].accesses[i].record = p[i].record
               /\ txn'[t].accesses[i].type = p[i].type
               /\ txn'[t].accesses[i].type # "INSERT_ONLY" =>
                    txn'[t].accesses[i].saw \in Nat
    <3>1. CASE i = n
      <4>1. txn'[t].accesses[i] = e
        BY <1>10, <1>14, <3>1
      <4> QED
        BY <1>5, <1>8, <3>1, <4>1
    <3>2. CASE i # n
      <4>1. i \in DOMAIN txn[t].accesses /\ txn'[t].accesses[i] = txn[t].accesses[i]
        BY <1>2, <1>10, <1>11, <1>14, <1>15, <2>2, <3>2
      <4> QED
        BY <1>1, <4>1 DEF Follows
    <3> QED
      BY <3>1, <3>2
  <2> QED
    BY <1>14, <2>1, <2>2 DEF Follows
<1> QED
  BY <1>2, <1>7, <1>8, <1>10, <1>11, <1>12, <1>13, <1>14, <1>15, <1>16
     DEF e, Appended

-----------------------------------------------------------------------------
(***************************************************************************)
(* Steps.                                                                  *)
(***************************************************************************)

(***************************************************************************)
(* A step of one thread leaves the others, and the build option, alone.    *)
(***************************************************************************)
Others(t) ==
  /\ scheme' = scheme
  /\ txn' \in [Thread -> TxnType] /\ pc' \in [Thread -> Pc]
  /\ \A u \in Thread : u # t => txn'[u] = txn[u] /\ pc'[u] = pc[u]

SameEntries(t) ==
  /\ txn'[t].procedure = txn[t].procedure /\ txn'[t].start = txn[t].start
  /\ txn'[t].complete = txn[t].complete /\ txn'[t].accesses = txn[t].accesses

(***************************************************************************)
(* What is derived from the access list stays as long as the list does.    *)
(***************************************************************************)
LEMMA EntriesKept ==
  ASSUME NEW t, SameEntries(t), scheme' = scheme
  PROVE  /\ ToLock(t)' = ToLock(t) /\ ToInstall(t)' = ToInstall(t)
         /\ HasSnapshot(t)' = HasSnapshot(t) /\ Access(t)' = Access(t)
         /\ Wrote(t)' = Wrote(t)
<1>1. ToLock(t)' = ToLock(t)
  BY DEF SameEntries, ToLock, Locks
<1>2. ToInstall(t)' = ToInstall(t)
  BY DEF SameEntries, ToInstall
<1>3. HasSnapshot(t)' = HasSnapshot(t)
  BY DEF SameEntries, HasSnapshot
<1>4. Access(t)' = Access(t)
  BY DEF SameEntries, Access
<1> QED
  BY <1>1, <1>2, <1>3, <1>4 DEF SameEntries, Wrote

(***************************************************************************)
(* The locked and the updated entries are positions of the access list.    *)
(***************************************************************************)
LEMMA LoopsInList ==
  ASSUME NEW t
  PROVE  /\ ToLock(t) \subseteq DOMAIN txn[t].accesses
         /\ ToInstall(t) \subseteq ToLock(t)
BY DEF ToLock, ToInstall, Locks

(***************************************************************************)
(* Changes of single fields.                                               *)
(***************************************************************************)
LEMMA FieldSet ==
  ASSUME NEW x \in TxnType, NEW S \in SUBSET Nat, NEW n \in Nat
  PROVE  /\ LET y == [x EXCEPT !.locked = S]
            IN  /\ y \in TxnType /\ y.procedure = x.procedure /\ y.start = x.start
                /\ y.complete = x.complete /\ y.accesses = x.accesses
                /\ y.ts = x.ts /\ y.locked = S /\ y.done = x.done
                /\ y.commitTs = x.commitTs
         /\ LET y == [x EXCEPT !.done = S]
            IN  /\ y \in TxnType /\ y.procedure = x.procedure /\ y.start = x.start
                /\ y.complete = x.complete /\ y.accesses = x.accesses
                /\ y.ts = x.ts /\ y.locked = x.locked /\ y.done = S
                /\ y.commitTs = x.commitTs
         /\ LET y == [x EXCEPT !.commitTs = n]
            IN  /\ y \in TxnType /\ y.procedure = x.procedure /\ y.start = x.start
                /\ y.complete = x.complete /\ y.accesses = x.accesses
                /\ y.ts = x.ts /\ y.locked = x.locked /\ y.done = x.done
                /\ y.commitTs = n
         /\ LET y == [x EXCEPT !.ts = n]
            IN  /\ y \in TxnType /\ y.procedure = x.procedure /\ y.start = x.start
                /\ y.complete = x.complete /\ y.accesses = x.accesses
                /\ y.ts = n /\ y.locked = x.locked /\ y.done = x.done
                /\ y.commitTs = x.commitTs
BY DEF TxnType

(***************************************************************************)
(* A step that replaces the transaction and the program counter of one     *)
(* thread.                                                                 *)
(***************************************************************************)
LEMMA TxnSet ==
  ASSUME StateInv, NEW t \in Thread, NEW x \in TxnType, NEW p \in Pc,
         txn' = [txn EXCEPT ![t] = x], pc' = [pc EXCEPT ![t] = p], scheme' = scheme
  PROVE  Others(t) /\ txn'[t] = x /\ pc'[t] = p
BY DEF StateInv, TypeInv, Others

(***************************************************************************)
(* The timestamp of a snapshot is that of a thread.                        *)
(***************************************************************************)
LEMMA MaxThreadTs ==
  ASSUME StateInv, NEW t \in Thread
  PROVE  /\ GetMaxTimestamp \in Nat /\ GetMaxTimestamp < monotone
         /\ \A u \in Thread : threadTs[u] <= GetMaxTimestamp
<1> DEFINE S == {threadTs[u] : u \in Thread}
<1>1. monotone \in Nat /\ \A u \in Thread : threadTs[u] \in Nat /\ threadTs[u] < monotone
  BY DEF StateInv, TypeInv, TsOf
<1>2. S \subseteq 0..monotone /\ S # {}
  BY <1>1
<1>3. \A x \in S : x \in Nat /\ x < monotone
  BY <1>1
<1>4. \A u \in Thread : threadTs[u] \in S
  OBVIOUS
<1>5. GetMaxTimestamp = MaxOf(S)
  BY DEF GetMaxTimestamp
<1> HIDE DEF S
<1>6. MaxOf(S) \in S /\ \A y \in S : MaxOf(S) >= y
  BY <1>1, <1>2, GreatestNatural
<1> QED
  BY <1>1, <1>3, <1>4, <1>5, <1>6

(***************************************************************************)
(* The bound of garbage collection is no larger than any thread timestamp. *)
(***************************************************************************)
LEMMA MinThreadTs ==
  ASSUME StateInv, NEW t \in Thread
  PROVE  /\ GetMinTimestamp \in Nat
         /\ \A u \in Thread : GetMinTimestamp <= threadTs[u]
<1> DEFINE S == {threadTs[u] : u \in Thread}
<1>1. \A u \in Thread : threadTs[u] \in Nat
  BY DEF StateInv, TypeInv
<1>2. S \subseteq Nat /\ S # {}
  BY <1>1
<1>4. \A u \in Thread : threadTs[u] \in S
  OBVIOUS
<1>5. GetMinTimestamp = MinOf(S)
  BY DEF GetMinTimestamp
<1> HIDE DEF S
<1>6. \E n \in S : \A m \in S : n <= m
  BY <1>2, LeastNatural
<1>7. MinOf(S) \in S /\ \A m \in S : MinOf(S) <= m
  BY <1>6 DEF MinOf
<1> QED
  BY <1>2, <1>4, <1>5, <1>7

(***************************************************************************)
(* What each step does to the transaction that takes it.                   *)
(***************************************************************************)
LEMMA ExecuteStep ==
  ASSUME StateInv, NEW t \in Thread, Execute(t)
  PROVE  /\ Others(t) /\ pc[t] = "idle" /\ pc'[t] = "exec"
         /\ txn'[t].procedure \in Procedures
         /\ txn'[t].accesses = <<>> /\ txn'[t].locked = {} /\ txn'[t].done = {}
         /\ txn'[t].commitTs = 0 /\ DOMAIN txn'[t].accesses = {}
         /\ Follows(txn'[t])
         /\ txn'[t].start = IF HasSnapshot(t)' THEN GetMaxTimestamp ELSE Unread
         /\ txn'[t].complete <=> \A u \in Thread : Installing(u) =>
                                   txn[u].commitTs > GetMaxTimestamp
<1>1. PICK p \in Procedures :
       txn' = [txn EXCEPT ![t] =
         [NoTxn EXCEPT
           !.procedure = p,
           !.start = IF scheme = "MVOCC" /\ ~IsReadOnly(p) THEN Unread
                     ELSE GetMaxTimestamp,
           !.complete = \A u \in Thread : Installing(u) =>
                          txn[u].commitTs > GetMaxTimestamp]]
  BY DEF Execute
<1> DEFINE s == IF scheme = "MVOCC" /\ ~IsReadOnly(p) THEN Unread ELSE GetMaxTimestamp
           b == \A u \in Thread : Installing(u) => txn[u].commitTs > GetMaxTimestamp
           x == [NoTxn EXCEPT !.procedure = p, !.start = s, !.complete = b]
<1>2. s \in {Unread} \cup Nat /\ b \in BOOLEAN
  BY MaxThreadTs
<1>3. /\ x \in TxnType /\ x.procedure = p /\ x.start = s /\ x.complete = b
      /\ x.accesses = <<>> /\ x.locked = {} /\ x.done = {} /\ x.commitTs = 0
  <2> HIDE DEF s, b
  <2>1. /\ NoTxn \in TxnType /\ NoTxn.accesses = <<>> /\ NoTxn.locked = {}
        /\ NoTxn.done = {} /\ NoTxn.commitTs = 0
    BY NoTxnType
  <2> QED
    BY <1>2, <2>1 DEF TxnType
<1>4. txn' = [txn EXCEPT ![t] = x] /\ scheme' = scheme
  BY <1>1 DEF Execute, rest
<1> HIDE DEF x, s, b
<1>5. Others(t) /\ txn'[t] = x /\ pc'[t] = "exec" /\ pc[t] = "idle"
  <2>1. pc' = [pc EXCEPT ![t] = "exec"] /\ "exec" \in Pc /\ pc[t] = "idle"
    BY DEF Execute, Pc
  <2> QED
    BY <1>3, <1>4, <2>1, TxnSet
<1>6. HasSnapshot(t)' <=> ~(scheme = "MVOCC" /\ ~IsReadOnly(p))
  BY <1>3, <1>4, <1>5 DEF HasSnapshot
<1>7. Len(<<>>) = 0 /\ DOMAIN <<>> = {}
  BY EmptySeq
<1>8. Follows(txn'[t])
  <2>1. p \in Seq([record : Record \cup {0}, type : AccessType])
    BY DEF StateInv, TypeInv, SnapshotConstants, IsProcedure
  <2>2. Len(p) \in Nat
    <3> DEFINE E == [record : Record \cup {0}, type : AccessType]
    <3>1. p \in Seq(E)
      BY <2>1
    <3> HIDE DEF E
    <3> QED
      BY <3>1, LenProperties
  <2> QED
    BY <1>3, <1>5, <1>7, <2>2 DEF Follows
<1> QED
  BY <1>3, <1>5, <1>6, <1>7, <1>8 DEF s, b

Accesses(t, e) ==
  /\ Others(t) /\ pc'[t] = "exec" /\ Running(t) /\ Appended(t, e)
  /\ e.record = Access(t).record /\ e.type = Access(t).type

(***************************************************************************)
(* A transaction with accesses left runs.                                  *)
(***************************************************************************)
LEMMA Accessing1 ==
  ASSUME StateInv, NEW t \in Thread, Accessing(t)
  PROVE  Running(t) /\ Len(txn[t].accesses) < Len(txn[t].procedure) /\ pc[t] = "exec"
BY DEF Accessing, Running

(***************************************************************************)
(* InsertRecord adds an entry that has read nothing.                       *)
(***************************************************************************)
LEMMA InsertStep ==
  ASSUME StateInv, NEW t \in Thread, InsertRecord(t)
  PROVE  Accesses(t, NewEntry(t, 0, Unread)) /\ pc[t] = "exec"
<1>1. Accessing(t) /\ Access(t).type = "INSERT_ONLY" /\ NewAccess(t, 0, Unread)
      /\ pc' = pc /\ scheme' = scheme
  BY DEF InsertRecord, rest
<1>2. 0 \in Nat /\ Unread \in {Unread} \cup Nat
  OBVIOUS
<1> QED
  BY <1>1, <1>2, Accessing1, Accessed DEF Accesses, Others, StateInv, TypeInv

(***************************************************************************)
(* SelectSnapshot adds an entry that has read at the snapshot.             *)
(***************************************************************************)
LEMMA SnapshotStep ==
  ASSUME StateInv, NEW t \in Thread, SelectSnapshot(t),
         VersionAt(history[Access(t).record], txn[t].start) \in Nat
  PROVE  /\ Accesses(t, NewEntry(t, 0, VersionAt(history[Access(t).record], txn[t].start)))
         /\ pc[t] = "exec" /\ HasSnapshot(t) /\ Access(t).type # "INSERT_ONLY"
         /\ Access(t).type = "READ_WRITE" => scheme = "SIOCC"
<1> DEFINE v == VersionAt(history[Access(t).record], txn[t].start)
<1>1. Accessing(t) /\ Access(t).type # "INSERT_ONLY" /\ NewAccess(t, 0, v)
      /\ pc' = pc /\ scheme' = scheme /\ HasSnapshot(t)
      /\ (Access(t).type = "READ_WRITE" => scheme = "SIOCC")
  BY DEF SelectSnapshot, rest
<1>2. 0 \in Nat /\ v \in {Unread} \cup Nat /\ v \in Nat
  OBVIOUS
<1> HIDE DEF v
<1>3. Accesses(t, NewEntry(t, 0, v))
  BY <1>1, <1>2, Accessing1, Accessed DEF Accesses, Others, StateInv, TypeInv
<1>4. pc[t] = "exec"
  BY <1>1, Accessing1
<1> QED
  BY <1>1, <1>3, <1>4 DEF v

(***************************************************************************)
(* SelectLocked takes the lock and adds an entry, or begins to abort.      *)
(***************************************************************************)
LEMMA LockedStep ==
  ASSUME StateInv, NEW t \in Thread, SelectLocked(t),
         VersionAt(history[Access(t).record], txn[t].start) \in Nat
  PROVE  LET r == Access(t).record
         IN  /\ pc[t] = "exec" /\ Access(t).type = "READ_WRITE" /\ scheme = "SILOCK"
             /\ HasSnapshot(t)
             /\ IF CanWriteLock(lock[r]) /\ Validate(t, r)
                THEN /\ Accesses(t, NewEntry(t, 0, VersionAt(history[r], txn[t].start)))
                     /\ lock' = [lock EXCEPT ![r] = WriteLocked(lock[r])]
                ELSE Others(t) /\ pc'[t] = "undo" /\ txn' = txn /\ lock' = lock
<1> DEFINE r == Access(t).record
           v == VersionAt(history[r], txn[t].start)
<1>1. Accessing(t) /\ Access(t).type = "READ_WRITE" /\ scheme' = scheme
      /\ scheme = "SILOCK" /\ HasSnapshot(t) /\ pc[t] = "exec"
  BY DEF SelectLocked, rest, HasSnapshot, Accessing
<1>2. CASE CanWriteLock(lock[r]) /\ Validate(t, r)
  <2>1. NewAccess(t, 0, v) /\ pc' = pc /\ lock' = [lock EXCEPT ![r] = WriteLocked(lock[r])]
    BY <1>2 DEF SelectLocked
  <2>2. 0 \in Nat /\ v \in {Unread} \cup Nat /\ v \in Nat
    OBVIOUS
  <2> HIDE DEF v
  <2>3. Accesses(t, NewEntry(t, 0, v))
    BY <1>1, <2>1, <2>2, Accessing1, Accessed DEF Accesses, Others, StateInv, TypeInv
  <2> QED
    BY <1>1, <1>2, <2>1, <2>3 DEF v
<1>3. CASE ~(CanWriteLock(lock[r]) /\ Validate(t, r))
  <2>1. pc' = [pc EXCEPT ![t] = "undo"] /\ txn' = txn /\ lock' = lock
    BY <1>3 DEF SelectLocked
  <2>2. Others(t) /\ pc'[t] = "undo"
    BY <1>1, <2>1 DEF Others, StateInv, TypeInv, Pc
  <2> QED
    BY <1>1, <1>3, <2>1, <2>2
<1> QED
  BY <1>2, <1>3

(***************************************************************************)
(* SelectNewest keeps the timestamp of the newest version.                 *)
(***************************************************************************)
LEMMA NewestStep ==
  ASSUME StateInv, NEW t \in Thread, SelectNewest(t), latest[Access(t).record] \in Nat
  PROVE  /\ Others(t) /\ SameEntries(t) /\ pc[t] = "exec" /\ pc'[t] = "read"
         /\ scheme = "MVOCC" /\ ~HasSnapshot(t) /\ Access(t).type # "INSERT_ONLY"
         /\ Len(txn[t].accesses) < Len(txn[t].procedure)
         /\ txn'[t].ts = latest[Access(t).record]
         /\ txn'[t].locked = txn[t].locked /\ txn'[t].done = txn[t].done
         /\ txn'[t].commitTs = txn[t].commitTs
<1> DEFINE n == latest[Access(t).record]
           x == [txn[t] EXCEPT !.ts = n]
<1>1. /\ x \in TxnType /\ x.procedure = txn[t].procedure /\ x.start = txn[t].start
      /\ x.complete = txn[t].complete /\ x.accesses = txn[t].accesses
      /\ x.ts = n /\ x.locked = txn[t].locked /\ x.done = txn[t].done
      /\ x.commitTs = txn[t].commitTs
  <2>1. txn[t] \in TxnType /\ {} \in SUBSET Nat /\ n \in Nat
    BY DEF StateInv, TypeInv
  <2> HIDE DEF n
  <2> QED
    BY <2>1 DEF TxnType
<1>2. txn' = [txn EXCEPT ![t] = x] /\ scheme' = scheme /\ pc' = [pc EXCEPT ![t] = "read"]
      /\ "read" \in Pc
  BY DEF SelectNewest, rest, Pc, StateInv, TypeInv
<1>3. Others(t) /\ txn'[t] = x /\ pc'[t] = "read"
  <2> HIDE DEF x
  <2> QED
    BY <1>1, <1>2, TxnSet
<1>4. scheme = "MVOCC" /\ ~HasSnapshot(t) /\ Access(t).type # "INSERT_ONLY" /\ Accessing(t)
  BY DEF SelectNewest
<1> HIDE DEF x
<1> QED
  BY <1>1, <1>3, <1>4, Accessing1 DEF SameEntries

(***************************************************************************)
(* ReadAccess adds an entry that has read the newest version.              *)
(***************************************************************************)
LEMMA ReadStep ==
  ASSUME StateInv, NEW t \in Thread, ReadAccess(t),
         Newest(history[Access(t).record]) \in Nat
  PROVE  /\ Accesses(t, NewEntry(t, txn[t].ts, Newest(history[Access(t).record])))
         /\ pc[t] = "read" /\ txn[t].ts \in Nat
<1> DEFINE v == Newest(history[Access(t).record])
<1>1. pc[t] = "read" /\ NewAccess(t, txn[t].ts, v) /\ scheme' = scheme
      /\ pc' = [pc EXCEPT ![t] = "exec"]
  BY DEF ReadAccess, rest
<1>2. Len(txn[t].accesses) < Len(txn[t].procedure) /\ txn[t].ts \in Nat /\ Running(t)
  BY <1>1 DEF StateInv, PcOf, Running
<1>3. v \in {Unread} \cup Nat /\ v \in Nat
  OBVIOUS
<1> HIDE DEF v
<1>4. pc' \in [Thread -> Pc] /\ pc'[t] = "exec" /\ \A u \in Thread : u # t => pc'[u] = pc[u]
  BY <1>1 DEF StateInv, TypeInv, Pc
<1>5. Accesses(t, NewEntry(t, txn[t].ts, v))
  BY <1>1, <1>2, <1>3, <1>4, Accessed DEF Accesses, Others
<1> QED
  BY <1>1, <1>2, <1>5 DEF v

(***************************************************************************)
(* CommitTransaction begins to lock, or under SILOCK holds all locks.      *)
(***************************************************************************)
LEMMA CommitStep ==
  ASSUME StateInv, NEW t \in Thread, CommitTransaction(t)
  PROVE  /\ Others(t) /\ SameEntries(t) /\ pc[t] = "exec"
         /\ pc'[t] = IF scheme = "SILOCK" THEN "draw" ELSE "lock"
         /\ scheme = "MVOCC" => ~HasSnapshot(t)
         /\ txn'[t].locked = IF scheme = "SILOCK" THEN ToLock(t) ELSE txn[t].locked
         /\ txn'[t].done = txn[t].done /\ txn'[t].commitTs = txn[t].commitTs
<1>1. /\ pc[t] = "exec" /\ scheme' = scheme
      /\ scheme = "MVOCC" => ~HasSnapshot(t)
  BY DEF CommitTransaction, rest, HasSnapshot
<1>2. CASE scheme = "SILOCK"
  <2> DEFINE x == [txn[t] EXCEPT !.locked = ToLock(t)]
  <2>1. /\ x \in TxnType /\ x.procedure = txn[t].procedure /\ x.start = txn[t].start
        /\ x.complete = txn[t].complete /\ x.accesses = txn[t].accesses
        /\ x.locked = ToLock(t) /\ x.done = txn[t].done /\ x.commitTs = txn[t].commitTs
    <3>1. txn[t] \in TxnType /\ 0 \in Nat /\ ToLock(t) \in SUBSET Nat
      BY AccessesOf, LoopsInList DEF StateInv, TypeInv
    <3> QED
      BY <3>1, FieldSet
  <2>2. txn' = [txn EXCEPT ![t] = x] /\ pc' = [pc EXCEPT ![t] = "draw"] /\ "draw" \in Pc
    BY <1>2 DEF CommitTransaction, Pc
  <2> HIDE DEF x
  <2>3. Others(t) /\ txn'[t] = x /\ pc'[t] = "draw"
    BY <1>1, <2>1, <2>2, TxnSet
  <2> QED
    BY <1>1, <1>2, <2>1, <2>3 DEF SameEntries
<1>3. CASE scheme # "SILOCK"
  <2>1. txn' = txn /\ pc' = [pc EXCEPT ![t] = "lock"]
    BY <1>3 DEF CommitTransaction
  <2>2. Others(t) /\ pc'[t] = "lock"
    BY <1>1, <2>1 DEF Others, StateInv, TypeInv, Pc
  <2> QED
    BY <1>1, <1>3, <2>1, <2>2 DEF SameEntries
<1> QED
  BY <1>2, <1>3

NextLock(t) == FirstOf(t, ToLock(t) \ txn[t].locked)

(***************************************************************************)
(* AcquireLock locks the next entry, and goes on if the entry is valid.    *)
(***************************************************************************)
LEMMA LockStep ==
  ASSUME StateInv, NEW t \in Thread, AcquireLock(t)
  PROVE  LET i == NextLock(t)
             e == txn[t].accesses[i]
         IN  /\ Others(t) /\ SameEntries(t) /\ pc[t] = "lock"
             /\ i \in ToLock(t) \ txn[t].locked /\ i \in DOMAIN txn[t].accesses
             /\ e.type \in {"READ_ONLY", "READ_WRITE"} /\ e.record \in Record
             /\ CanLock(e)
             /\ lock' = [lock EXCEPT ![e.record] =
                  IF e.type = "READ_ONLY" THEN ReadLocked(lock[e.record])
                  ELSE WriteLocked(lock[e.record])]
             /\ pc'[t] = IF Valid(t, e) THEN "lock" ELSE "release"
             /\ txn'[t].locked = txn[t].locked \cup {i}
             /\ txn'[t].done = txn[t].done /\ txn'[t].commitTs = txn[t].commitTs
<1> DEFINE i == NextLock(t)
           e == txn[t].accesses[i]
           x == [txn[t] EXCEPT !.locked = txn[t].locked \cup {i}]
           p == IF Valid(t, e) THEN "lock" ELSE "release"
<1>0. /\ CanLock(e) /\ pc[t] = "lock" /\ txn[t].locked # ToLock(t) /\ scheme' = scheme
      /\ lock' = [lock EXCEPT ![e.record] =
                  IF e.type = "READ_ONLY" THEN ReadLocked(lock[e.record])
                  ELSE WriteLocked(lock[e.record])]
      /\ pc' = [pc EXCEPT ![t] = p] /\ txn' = [txn EXCEPT ![t] = x]
  BY DEF AcquireLock, NextLock, rest
<1>1. i \in ToLock(t) \ txn[t].locked
  <2>1. txn[t].locked \subseteq ToLock(t)
    BY DEF StateInv, LoopOf
  <2>2. ToLock(t) \ txn[t].locked # {} /\ ToLock(t) \ txn[t].locked \subseteq DOMAIN txn[t].accesses
    BY <1>0, <2>1, LoopsInList
  <2> QED
    BY <2>2, FirstIn DEF NextLock
<1> HIDE DEF i
<1>2. i \in DOMAIN txn[t].accesses /\ i \in Nat /\ e.type \in {"READ_ONLY", "READ_WRITE"}
      /\ e.record \in Record
  <2>1. i \in DOMAIN txn[t].accesses
    BY <1>1, LoopsInList
  <2>2. i \in Nat /\ e \in Entry
    BY <2>1, AccessesOf
  <2>3. e.type \in {"READ_ONLY", "READ_WRITE"}
    BY <1>1 DEF ToLock, Locks
  <2> QED
    BY <2>1, <2>2, <2>3, AccessesOf
<1>3. /\ x \in TxnType /\ x.procedure = txn[t].procedure /\ x.start = txn[t].start
      /\ x.complete = txn[t].complete /\ x.accesses = txn[t].accesses
      /\ x.locked = txn[t].locked \cup {i} /\ x.done = txn[t].done
      /\ x.commitTs = txn[t].commitTs
  <2>1. txn[t] \in TxnType /\ 0 \in Nat /\ txn[t].locked \cup {i} \in SUBSET Nat
    BY <1>2 DEF StateInv, TypeInv, TxnType
  <2> QED
    BY <2>1, FieldSet
<1>4. p \in Pc
  BY DEF Pc
<1> HIDE DEF x, p
<1>5. Others(t) /\ txn'[t] = x /\ pc'[t] = p
  BY <1>0, <1>3, <1>4, TxnSet
<1> QED
  BY <1>0, <1>1, <1>2, <1>3, <1>5 DEF SameEntries, i, p

(***************************************************************************)
(* GetMonotoneTimestamp gives the transaction its commit timestamp.        *)
(***************************************************************************)
LEMMA DrawStep ==
  ASSUME StateInv, NEW t \in Thread, GetMonotoneTimestamp(t)
  PROVE  /\ Others(t) /\ SameEntries(t) /\ pc[t] \in {"lock", "draw"}
         /\ pc'[t] = "install" /\ txn[t].locked = ToLock(t)
         /\ txn'[t].locked = txn[t].locked /\ txn'[t].done = txn[t].done
         /\ txn'[t].commitTs = monotone /\ monotone' = monotone + 1
<1> DEFINE x == [txn[t] EXCEPT !.commitTs = monotone]
<1>1. /\ x \in TxnType /\ x.procedure = txn[t].procedure /\ x.start = txn[t].start
      /\ x.complete = txn[t].complete /\ x.accesses = txn[t].accesses
      /\ x.locked = txn[t].locked /\ x.done = txn[t].done /\ x.commitTs = monotone
  <2>1. txn[t] \in TxnType /\ monotone \in Nat /\ {} \in SUBSET Nat
    BY DEF StateInv, TypeInv
  <2> QED
    BY <2>1 DEF TxnType
<1>2. /\ txn' = [txn EXCEPT ![t] = x] /\ pc' = [pc EXCEPT ![t] = "install"]
      /\ "install" \in Pc /\ scheme' = scheme /\ monotone' = monotone + 1
      /\ pc[t] \in {"lock", "draw"}
  BY DEF GetMonotoneTimestamp, Pc, rest
<1> HIDE DEF x
<1>3. Others(t) /\ txn'[t] = x /\ pc'[t] = "install"
  BY <1>1, <1>2, TxnSet
<1>4. txn[t].locked = ToLock(t)
  BY DEF GetMonotoneTimestamp, StateInv, LoopOf
<1> QED
  BY <1>1, <1>2, <1>3, <1>4 DEF SameEntries

NextInstall(t) == FirstOf(t, ToInstall(t) \ txn[t].done)

DoneStep(t, i) ==
  /\ Others(t) /\ SameEntries(t) /\ pc' = pc
  /\ txn'[t].locked = txn[t].locked /\ txn'[t].commitTs = txn[t].commitTs
  /\ txn'[t].done = txn[t].done \cup {i}

(***************************************************************************)
(* A step that counts one entry as done.                                   *)
(***************************************************************************)
LEMMA DoneSet ==
  ASSUME StateInv, NEW t \in Thread, NEW i \in Nat, pc' = pc, scheme' = scheme,
         txn' = [txn EXCEPT ![t].done = @ \cup {i}]
  PROVE  DoneStep(t, i)
<1> DEFINE x == [txn[t] EXCEPT !.done = txn[t].done \cup {i}]
<1>1. /\ x \in TxnType /\ x.procedure = txn[t].procedure /\ x.start = txn[t].start
      /\ x.complete = txn[t].complete /\ x.accesses = txn[t].accesses
      /\ x.locked = txn[t].locked /\ x.done = txn[t].done \cup {i}
      /\ x.commitTs = txn[t].commitTs
  <2>1. txn[t] \in TxnType /\ 0 \in Nat /\ txn[t].done \cup {i} \in SUBSET Nat
    BY DEF StateInv, TypeInv, TxnType
  <2> QED
    BY <2>1, FieldSet
<1>2. txn' = [txn EXCEPT ![t] = x]
  OBVIOUS
<1> HIDE DEF x
<1>3. Others(t) /\ txn'[t] = x
  BY <1>1, <1>2 DEF Others, StateInv, TypeInv
<1> QED
  BY <1>1, <1>3 DEF SameEntries, DoneStep

(***************************************************************************)
(* WriteAccess installs the next update.                                   *)
(***************************************************************************)
LEMMA WriteStep ==
  ASSUME StateInv, NEW t \in Thread, WriteAccess(t)
  PROVE  LET i == NextInstall(t)
             r == txn[t].accesses[i].record
         IN  /\ DoneStep(t, i) /\ pc[t] = "install"
             /\ i \in ToInstall(t) \ txn[t].done /\ r \in Record
             /\ latest' = [latest EXCEPT ![r] = txn[t].commitTs]
             /\ history' = [history EXCEPT ![r] =
                  CollectGarbage(<<txn[t].commitTs>> \o history[r])]
             /\ written' = [written EXCEPT ![r] = written[r] \cup {txn[t].commitTs}]
<1> DEFINE i == NextInstall(t)
           r == txn[t].accesses[i].record
<1>1. /\ pc[t] = "install" /\ txn[t].done # ToInstall(t) /\ scheme' = scheme /\ pc' = pc
      /\ latest' = [latest EXCEPT ![r] = txn[t].commitTs]
      /\ history' = [history EXCEPT ![r] =
           CollectGarbage(<<txn[t].commitTs>> \o history[r])]
      /\ written' = [written EXCEPT ![r] = written[r] \cup {txn[t].commitTs}]
      /\ txn' = [txn EXCEPT ![t].done = @ \cup {i}]
  BY DEF WriteAccess, NextInstall, rest
<1>2. i \in ToInstall(t) \ txn[t].done
  <2>1. txn[t].done \subseteq ToInstall(t)
    BY <1>1 DEF StateInv, LoopOf
  <2>2. ToInstall(t) \ txn[t].done # {}
        /\ ToInstall(t) \ txn[t].done \subseteq DOMAIN txn[t].accesses
    BY <1>1, <2>1, LoopsInList
  <2> QED
    BY <2>2, FirstIn DEF NextInstall
<1> HIDE DEF i
<1>3. i \in DOMAIN txn[t].accesses /\ i \in Nat
  BY <1>2, LoopsInList, AccessesOf
<1>4. r \in Record
  <2>1. txn[t].accesses[i].type = "READ_WRITE"
    BY <1>2 DEF ToInstall
  <2> QED
    BY <1>3, <2>1, AccessesOf
<1> HIDE DEF r
<1>5. DoneStep(t, i)
  BY <1>1, <1>3, DoneSet
<1> QED
  BY <1>1, <1>2, <1>4, <1>5 DEF i, r

(***************************************************************************)
(* EndInstall starts to count the released entries.                        *)
(***************************************************************************)
LEMMA EndInstallStep ==
  ASSUME StateInv, NEW t \in Thread, EndInstall(t)
  PROVE  /\ Others(t) /\ SameEntries(t) /\ pc[t] = "install" /\ pc'[t] = "release"
         /\ txn[t].done = ToInstall(t)
         /\ txn'[t].locked = txn[t].locked /\ txn'[t].done = {}
         /\ txn'[t].commitTs = txn[t].commitTs
<1> DEFINE x == [txn[t] EXCEPT !.done = {}]
<1>1. /\ x \in TxnType /\ x.procedure = txn[t].procedure /\ x.start = txn[t].start
      /\ x.complete = txn[t].complete /\ x.accesses = txn[t].accesses
      /\ x.locked = txn[t].locked /\ x.done = {} /\ x.commitTs = txn[t].commitTs
  <2>1. txn[t] \in TxnType /\ 0 \in Nat /\ {} \in SUBSET Nat
    BY DEF StateInv, TypeInv
  <2> QED
    BY <2>1, FieldSet
<1>2. /\ txn' = [txn EXCEPT ![t] = x] /\ pc' = [pc EXCEPT ![t] = "release"]
      /\ "release" \in Pc /\ scheme' = scheme
      /\ pc[t] = "install" /\ txn[t].done = ToInstall(t)
  BY DEF EndInstall, Pc, rest
<1> HIDE DEF x
<1>3. Others(t) /\ txn'[t] = x /\ pc'[t] = "release"
  BY <1>1, <1>2, TxnSet
<1> QED
  BY <1>1, <1>2, <1>3 DEF SameEntries

GivenBack(t, i) ==
  LET e == txn[t].accesses[i]
  IN  /\ DoneStep(t, i) /\ i \in DOMAIN txn[t].accesses /\ i \in ToLock(t)
      /\ e.type \in {"READ_ONLY", "READ_WRITE"} /\ e.record \in Record
      /\ lock' = [lock EXCEPT ![e.record] =
           IF e.type = "READ_ONLY" THEN ReadReleased(lock[e.record])
           ELSE WriteReleased(lock[e.record])]

(***************************************************************************)
(* A release gives back the lock of an entry of the set it is given.       *)
(***************************************************************************)
LEMMA ReleaseSet ==
  ASSUME StateInv, NEW t \in Thread, NEW S, S \subseteq ToLock(t), S # {},
         ReleaseNext(t, S), pc' = pc, scheme' = scheme
  PROVE  FirstOf(t, S) \in S /\ GivenBack(t, FirstOf(t, S))
<1> DEFINE i == FirstOf(t, S)
           e == txn[t].accesses[i]
<1>1. i \in S /\ i \in ToLock(t) /\ i \in DOMAIN txn[t].accesses /\ i \in Nat
  BY LoopsInList, FirstIn, AccessesOf
<1>2. /\ txn' = [txn EXCEPT ![t].done = @ \cup {i}]
      /\ lock' = [lock EXCEPT ![e.record] =
           IF e.type = "READ_ONLY" THEN ReadReleased(lock[e.record])
           ELSE WriteReleased(lock[e.record])]
  BY DEF ReleaseNext, Released
<1> HIDE DEF i
<1>3. e.type \in {"READ_ONLY", "READ_WRITE"} /\ e.record \in Record
  <2>1. e \in Entry /\ e.type \in {"READ_ONLY", "READ_WRITE"}
    BY <1>1, AccessesOf DEF ToLock, Locks
  <2> QED
    BY <1>1, <2>1, AccessesOf
<1>4. DoneStep(t, i)
  BY <1>1, <1>2, DoneSet
<1> QED
  BY <1>1, <1>2, <1>3, <1>4 DEF GivenBack, i

(***************************************************************************)
(* ReleaseLock gives back a lock that is still held.                       *)
(***************************************************************************)
LEMMA ReleaseStep ==
  ASSUME StateInv, NEW t \in Thread, ReleaseLock(t)
  PROVE  /\ pc[t] = "release"
         /\ \E i \in txn[t].locked \ txn[t].done : GivenBack(t, i)
<1>1. /\ pc[t] = "release" /\ txn[t].done # txn[t].locked
      /\ ReleaseNext(t, txn[t].locked \ txn[t].done) /\ pc' = pc /\ scheme' = scheme
  BY DEF ReleaseLock, rest
<1>2. txn[t].locked \ txn[t].done # {} /\ txn[t].locked \ txn[t].done \subseteq ToLock(t)
  BY <1>1 DEF StateInv, LoopOf
<1> QED
  BY <1>1, <1>2, ReleaseSet

(***************************************************************************)
(* ReleaseAborted gives back a lock that is still held.                    *)
(***************************************************************************)
LEMMA AbortStep ==
  ASSUME StateInv, NEW t \in Thread, ReleaseAborted(t)
  PROVE  /\ pc[t] = "undo"
         /\ \E i \in ToLock(t) \ txn[t].done : GivenBack(t, i)
<1>1. /\ pc[t] = "undo" /\ txn[t].done # ToLock(t)
      /\ ReleaseNext(t, ToLock(t) \ txn[t].done) /\ pc' = pc /\ scheme' = scheme
  BY DEF ReleaseAborted, rest
<1>2. ToLock(t) \ txn[t].done # {} /\ ToLock(t) \ txn[t].done \subseteq ToLock(t)
  BY <1>1 DEF StateInv, LoopOf
<1> QED
  BY <1>1, <1>2, ReleaseSet

Ends(t) == Others(t) /\ txn'[t] = NoTxn /\ pc'[t] \in {"idle", "done"}

(***************************************************************************)
(* The steps that end a transaction leave the thread with an empty one.    *)
(***************************************************************************)
LEMMA EndStep ==
  ASSUME StateInv, NEW t \in Thread,
         SetThreadTimestamp(t) \/ CommitReadOnly(t) \/ ReturnAborted(t)
  PROVE  /\ Ends(t)
         /\ SetThreadTimestamp(t) => /\ pc[t] = "release" /\ txn[t].commitTs # 0
                                     /\ txn[t].done = txn[t].locked
         /\ CommitReadOnly(t) => /\ pc[t] = "exec" /\ HasSnapshot(t)
                                 /\ scheme = "MVOCC" /\ IsReadOnly(txn[t].procedure)
         /\ ReturnAborted(t) => \/ pc[t] = "release" /\ txn[t].done = txn[t].locked
                                   /\ txn[t].commitTs = 0
                                \/ pc[t] = "undo" /\ txn[t].done = ToLock(t)
<1>1. \E p \in {"idle", "done"} : pc' = [pc EXCEPT ![t] = p]
  BY DEF SetThreadTimestamp, CommitReadOnly, ReturnAborted
<1>2. txn' = [txn EXCEPT ![t] = NoTxn] /\ scheme' = scheme
  BY DEF SetThreadTimestamp, CommitReadOnly, ReturnAborted, rest
<1>3. PICK p \in {"idle", "done"} : pc' = [pc EXCEPT ![t] = p]
  BY <1>1
<1>4. Others(t) /\ txn'[t] = NoTxn /\ pc'[t] = p
  <2>1. p \in Pc
    BY <1>3 DEF Pc
  <2> QED
    BY <1>2, <1>3, <2>1, NoTxnType, TxnSet
<1> QED
  BY <1>4 DEF Ends, SetThreadTimestamp, CommitReadOnly, ReturnAborted, HasSnapshot

-----------------------------------------------------------------------------
(***************************************************************************)
(* The version lists.  What has been collected is older than a version     *)
(* that is left, and that one is no newer than any thread's timestamp.     *)
(***************************************************************************)
VersionOf(r) ==
  /\ Descends(history[r]) /\ Range(history[r]) \subseteq written[r]
  /\ history[r] = <<>> => written[r] = {} /\ latest[r] = 0
  /\ history[r] # <<>> => latest[r] = history[r][1]
  /\ \A v \in written[r] : v > 0 /\ v <= latest[r]
  /\ \A v \in written[r] :
       \/ v \in Range(history[r])
       \/ \E w \in Range(history[r]) : v < w /\ \A t \in Thread : w <= threadTs[t]

VersionInv ==
  history \in [Record -> Seq(Nat)] /\ \A r \in Record : VersionOf(r)

(***************************************************************************)
(* The newest version is the latest.                                       *)
(***************************************************************************)
LEMMA NewestIsLatest ==
  ASSUME StateInv, VersionInv, NEW r \in Record
  PROVE  /\ Newest(history[r]) = latest[r] /\ latest[r] \in Nat
         /\ latest[r] # 0 => latest[r] \in written[r]
         /\ \A v \in written[r] : v \in Nat /\ v <= latest[r]
<1>1. VersionOf(r) /\ history[r] \in Seq(Nat) /\ latest[r] \in Nat
      /\ written[r] \subseteq Nat
  BY DEF StateInv, TypeInv, VersionInv
<1>2. CASE history[r] = <<>>
  BY <1>1, <1>2 DEF VersionOf, Newest
<1>3. CASE history[r] # <<>>
  <2>1. Len(history[r]) \in Nat /\ DOMAIN history[r] = 1..Len(history[r])
        /\ Len(history[r]) # 0 /\ Head(history[r]) = history[r][1]
    BY <1>1, <1>3, LenProperties, EmptySeq, HeadTailProperties
  <2>2. history[r][1] \in Range(history[r])
    BY <2>1 DEF Range
  <2> QED
    BY <1>1, <1>3, <2>1, <2>2 DEF VersionOf, Newest
<1> QED
  BY <1>2, <1>3

(***************************************************************************)
(* A read at a snapshot that is no older than the timestamp of a thread    *)
(* finds what it would find if nothing had ever been collected.            *)
(***************************************************************************)
LEMMA SnapshotRead ==
  ASSUME StateInv, VersionInv, NEW r \in Record, NEW t \in Thread, NEW s \in Nat,
         threadTs[t] <= s
  PROVE  /\ VersionAt(history[r], s) \in Nat
         /\ VersionAt(history[r], s) = NewestUpTo(written[r], s)
         /\ IsNewestUpTo(VersionAt(history[r], s), written[r], s)
<1> DEFINE h == history[r]
           x == VersionAt(h, s)
<1>1. /\ VersionOf(r) /\ h \in Seq(Nat) /\ Descends(h) /\ written[r] \subseteq Nat
      /\ threadTs[t] \in Nat
  BY DEF StateInv, TypeInv, VersionInv, VersionOf
<1>2. x \in Nat /\ IsNewestUpTo(x, Range(h), s)
  <2> HIDE DEF h
  <2> QED
    BY <1>1, VersionIs
<1>3. Range(h) \subseteq written[r]
  BY <1>1 DEF VersionOf
<1> HIDE DEF x
<1>4. ASSUME NEW v \in written[r], v <= s PROVE v <= x
  <2>1. CASE v \in Range(h)
    BY <1>2, <1>4, <2>1 DEF IsNewestUpTo
  <2>2. CASE v \notin Range(h)
    <3>1. PICK w \in Range(h) : v < w /\ w <= threadTs[t]
      BY <1>1, <2>2 DEF VersionOf
    <3>2. w \in Nat /\ v \in Nat
      BY <1>1, <1>3, <3>1
    <3>3. w <= s
      BY <1>1, <3>1, <3>2
    <3>4. w <= x
      BY <1>2, <3>3 DEF IsNewestUpTo
    <3> QED
      BY <1>2, <3>1, <3>2, <3>4
  <2> QED
    BY <2>1, <2>2
<1>5. IsNewestUpTo(x, written[r], s)
  BY <1>2, <1>3, <1>4 DEF IsNewestUpTo
<1>6. NewestUpTo(written[r], s) = x
  BY <1>1, <1>2, <1>5, NewestIs
<1> QED
  BY <1>2, <1>5, <1>6 DEF x

(***************************************************************************)
(* A running transaction's snapshot is no older than its thread's          *)
(* timestamp.                                                              *)
(***************************************************************************)
StartInv ==
  \A t \in Thread : txn[t].start # Unread => threadTs[t] <= txn[t].start

(***************************************************************************)
(* What the next access is of.                                             *)
(***************************************************************************)
LEMMA AccessOf ==
  ASSUME StateInv, NEW t \in Thread, Running(t),
         Len(txn[t].accesses) < Len(txn[t].procedure)
  PROVE  /\ Access(t).type \in AccessType
         /\ Access(t).type # "INSERT_ONLY" => Access(t).record \in Record
         /\ \A i \in DOMAIN txn[t].accesses :
              txn[t].accesses[i].type # "INSERT_ONLY" =>
                txn[t].accesses[i].record # Access(t).record
<1> DEFINE n == Len(txn[t].accesses) + 1
           p == txn[t].procedure
           E == [record : Record \cup {0}, type : AccessType]
<1>1. p \in Procedures /\ IsProcedure(p) /\ Follows(txn[t])
  BY DEF StateInv, TypeInv, PcOf, SnapshotConstants
<1>2. p \in Seq(E)
  BY <1>1 DEF IsProcedure
<1>3. Len(p) \in Nat /\ DOMAIN p = 1..Len(p) /\ \A i \in 1..Len(p) : p[i] \in E
  <2> HIDE DEF E, p
  <2> QED
    BY <1>2, LenProperties, ElementOfSeq
<1>4. /\ Len(txn[t].accesses) \in Nat
      /\ DOMAIN txn[t].accesses = 1..Len(txn[t].accesses)
  BY AccessesOf
<1>5. n \in DOMAIN p /\ Access(t) = p[n] /\ Access(t) \in E
  BY <1>3, <1>4 DEF Access
<1>6. /\ \A i \in DOMAIN p : p[i].record = 0 <=> p[i].type = "INSERT_ONLY"
      /\ \A i, j \in DOMAIN p : p[i].record = p[j].record => i = j \/ p[i].record = 0
  BY <1>1 DEF IsProcedure
<1>7. \A i \in DOMAIN txn[t].accesses :
        /\ i \in DOMAIN p /\ i # n /\ txn[t].accesses[i].record = p[i].record
        /\ txn[t].accesses[i].type = p[i].type
  BY <1>1, <1>3, <1>4 DEF Follows
<1>8. /\ Access(t).type \in AccessType
      /\ Access(t).type # "INSERT_ONLY" => Access(t).record \in Record
  BY <1>5, <1>6
<1> HIDE DEF n, p, E
<1>9. ASSUME NEW i \in DOMAIN txn[t].accesses, txn[t].accesses[i].type # "INSERT_ONLY"
      PROVE  txn[t].accesses[i].record # Access(t).record
  BY <1>5, <1>6, <1>7, <1>9
<1> QED
  BY <1>8, <1>9

(***************************************************************************)
(* What a transaction leaves in the history has the types of a commit.     *)
(***************************************************************************)
LEMMA CommitTyped ==
  ASSUME StateInv, NEW t \in Thread, NEW n \in Nat
  PROVE  [ts |-> n, start |-> txn[t].start, complete |-> txn[t].complete,
          saw |-> Saw(t), wrote |-> Wrote(t)] \in CommitType
<1>1. txn[t] \in TxnType /\ Follows(txn[t])
  BY DEF StateInv, TypeInv, PcOf
<1>2. Saw(t) \subseteq Record \X Nat
  <2>1. ASSUME NEW e \in Entries(t), e.type # "INSERT_ONLY"
        PROVE  e.record \in Record /\ e.saw \in Nat
    <3>1. PICK i \in DOMAIN txn[t].accesses : e = txn[t].accesses[i]
      BY DEF Entries, Range
    <3> QED
      BY <1>1, <2>1, <3>1, AccessesOf DEF Follows
  <2> QED
    BY <2>1 DEF Saw
<1>3. Wrote(t) \subseteq Record
  <2>1. ASSUME NEW i \in ToInstall(t) PROVE txn[t].accesses[i].record \in Record
    BY AccessesOf DEF ToInstall
  <2> QED
    BY <2>1 DEF Wrote
<1> QED
  BY <1>1, <1>2, <1>3 DEF CommitType, TxnType

-----------------------------------------------------------------------------
(***************************************************************************)
(* The first state is well formed.                                         *)
(***************************************************************************)
LEMMA StateInit ==
  ASSUME SnapshotConstants, Init
  PROVE  StateInv /\ VersionInv /\ StartInv
<1> USE DEF Init, SnapshotConstants
<1>1. TypeInv
  <2>0. isFinish \in BOOLEAN
    BY Zenon
  <2>1. scheme \in Scheme /\ committed \in SUBSET CommitType /\ monotone \in Nat \ {0}
    BY SMT
  <2>4. /\ latest \in [Record -> Nat] /\ written \in [Record -> SUBSET Nat]
        /\ threadTs \in [Thread -> Nat]
    OBVIOUS
  <2>2. pc \in [Thread -> Pc] /\ left \in [Thread -> 0..Batch]
    BY DEF Pc
  <2>3. txn \in [Thread -> TxnType]
    BY NoTxnType
  <2> QED
    BY <2>0, <2>1, <2>2, <2>3, <2>4 DEF TypeInv
<1>2. ASSUME NEW t \in Thread PROVE PcOf(t) /\ LoopOf(t) /\ TsOf(t)
  <2>1. txn[t] = NoTxn /\ pc[t] = "idle" /\ left[t] = Batch /\ monotone = 1 /\ threadTs[t] = 0
    OBVIOUS
  <2>2. PcOf(t)
    BY <2>1, NoTxnType DEF PcOf, Running
  <2>3. LoopOf(t)
    BY <2>1, NoTxnType DEF LoopOf
  <2>4. TsOf(t)
    BY <2>1, NoTxnType DEF TsOf
  <2> QED
    BY <2>2, <2>3, <2>4
<1>3. history \in [Record -> Seq(Nat)]
  BY EmptySeq
<1>4. ASSUME NEW r \in Record PROVE VersionOf(r)
  <2>1. history[r] = <<>> /\ written[r] = {} /\ latest[r] = 0 /\ DOMAIN <<>> = {}
    BY EmptySeq
  <2> QED
    BY <2>1 DEF VersionOf, Descends, Range
<1>5. StartInv
  BY NoTxnType DEF StartInv
<1> QED
  BY <1>1, <1>2, <1>3, <1>4, <1>5 DEF StateInv, VersionInv

(***************************************************************************)
(* A step of one thread keeps what the counters of the others say.         *)
(***************************************************************************)
LEMMA OthersKept ==
  ASSUME StateInv, NEW t \in Thread, Others(t), monotone' \in Nat,
         monotone' >= monotone,
         \A u \in Thread : u # t => left'[u] = left[u] /\ threadTs'[u] = threadTs[u]
  PROVE  \A u \in Thread : u # t => PcOf(u)' /\ LoopOf(u)' /\ TsOf(u)'
<1> SUFFICES ASSUME NEW u \in Thread, u # t PROVE PcOf(u)' /\ LoopOf(u)' /\ TsOf(u)'
  OBVIOUS
<1>1. txn'[u] = txn[u] /\ pc'[u] = pc[u] /\ left'[u] = left[u] /\ scheme' = scheme
      /\ threadTs'[u] = threadTs[u]
  BY DEF Others
<1>2. PcOf(u) /\ LoopOf(u) /\ TsOf(u)
  BY DEF StateInv
<1>3. SameEntries(u)
  BY <1>1 DEF SameEntries
<1>4. /\ ToLock(u)' = ToLock(u) /\ ToInstall(u)' = ToInstall(u)
      /\ HasSnapshot(u)' = HasSnapshot(u) /\ Access(u)' = Access(u)
  BY <1>1, <1>3, EntriesKept
<1>5. LoopOf(u)'
  BY <1>1, <1>2, <1>4 DEF LoopOf
<1>6. PcOf(u)'
  BY <1>1, <1>2, <1>4 DEF PcOf, Running
<1>7. TsOf(u)'
  <2>1. monotone \in Nat /\ threadTs[u] \in Nat /\ txn[u].commitTs \in Nat
    BY DEF StateInv, TypeInv, TxnType
  <2> QED
    BY <1>1, <1>2, <2>1 DEF TsOf
<1> QED
  BY <1>5, <1>6, <1>7

Quiet(t) ==
  /\ Others(t)
  /\ UNCHANGED <<latest, written, threadTs, isFinish, left, monotone, committed>>

(***************************************************************************)
(* A quiet step that keeps what is said of its own thread keeps StateInv.  *)
(***************************************************************************)
LEMMA QuietKept ==
  ASSUME StateInv, NEW t \in Thread, Quiet(t), PcOf(t)', LoopOf(t)',
         txn'[t].commitTs \in {0, txn[t].commitTs}
  PROVE  StateInv'
<1>1. Others(t) /\ latest' = latest /\ written' = written /\ threadTs' = threadTs
      /\ isFinish' = isFinish /\ left' = left /\ monotone' = monotone
      /\ committed' = committed
  BY DEF Quiet
<1>2. TypeInv'
  BY <1>1 DEF Others, StateInv, TypeInv
<1>3. \A u \in Thread : u # t => PcOf(u)' /\ LoopOf(u)' /\ TsOf(u)'
  <2>1. monotone' \in Nat /\ monotone' >= monotone
    BY <1>1 DEF StateInv, TypeInv
  <2> QED
    BY <1>1, <2>1, OthersKept
<1>4. TsOf(t)'
  <2>1. TsOf(t) /\ threadTs[t] \in Nat /\ txn[t].commitTs \in Nat /\ monotone \in Nat
        /\ monotone > 0
    BY DEF StateInv, TypeInv, TxnType
  <2> QED
    BY <1>1, <2>1 DEF TsOf
<1> QED
  BY <1>2, <1>3, <1>4 DEF StateInv

(***************************************************************************)
(* One more access.                                                        *)
(***************************************************************************)
LEMMA AppendedLoops ==
  ASSUME NEW t, NEW e, Appended(t, e), scheme' = scheme
  PROVE  LET n == Len(txn[t].accesses) + 1
         IN  /\ ToLock(t)' = ToLock(t) \cup (IF Locks(e) THEN {n} ELSE {})
             /\ HasSnapshot(t)' = HasSnapshot(t)
             /\ n \notin ToLock(t)
<1>1. HasSnapshot(t)' = HasSnapshot(t)
  BY DEF Appended, HasSnapshot
<1> DEFINE n == Len(txn[t].accesses) + 1
<1>2. /\ DOMAIN txn'[t].accesses = DOMAIN txn[t].accesses \cup {n}
      /\ n \notin DOMAIN txn[t].accesses /\ txn'[t].accesses[n] = e
      /\ \A i \in DOMAIN txn[t].accesses : txn'[t].accesses[i] = txn[t].accesses[i]
  BY DEF Appended
<1> HIDE DEF n
<1>3. ToLock(t)' = {i \in DOMAIN txn'[t].accesses : Locks(txn'[t].accesses[i])}
  BY DEF ToLock, Locks
<1>4. ToLock(t)' = ToLock(t) \cup (IF Locks(e) THEN {n} ELSE {})
  BY <1>2, <1>3 DEF ToLock
<1>5. n \notin ToLock(t)
  BY <1>2, LoopsInList
<1> QED
  BY <1>1, <1>4, <1>5 DEF n

(***************************************************************************)
(* A new access keeps StateInv.                                            *)
(***************************************************************************)
LEMMA AccessesKept ==
  ASSUME StateInv, NEW t \in Thread, NEW e, Accesses(t, e), Quiet(t),
         pc[t] \in {"exec", "read"}
  PROVE  StateInv'
<1>1. /\ Others(t) /\ pc'[t] = "exec" /\ Running(t) /\ Appended(t, e)
      /\ scheme' = scheme /\ left' = left
  BY DEF Accesses, Quiet, Others
<1>2. /\ txn'[t].procedure = txn[t].procedure /\ txn'[t].start = txn[t].start
      /\ txn'[t].locked = txn[t].locked /\ txn'[t].done = txn[t].done
      /\ txn'[t].commitTs = txn[t].commitTs /\ Follows(txn'[t])
  BY <1>1 DEF Appended
<1>3. ToLock(t) \subseteq ToLock(t)' /\ HasSnapshot(t)' = HasSnapshot(t)
  BY <1>1, AppendedLoops
<1>4. PcOf(t) /\ LoopOf(t)
  BY DEF StateInv
<1>5. LoopOf(t)'
  BY <1>1, <1>2, <1>3, <1>4 DEF LoopOf
<1>6. PcOf(t)'
  BY <1>1, <1>2, <1>3, <1>4 DEF PcOf, Running
<1> QED
  BY <1>2, <1>5, <1>6, QuietKept

(***************************************************************************)
(* A step inside the loops.                                                *)
(***************************************************************************)
LEMMA DoneKept ==
  ASSUME StateInv, NEW t \in Thread, NEW i \in Nat, DoneStep(t, i), Quiet(t),
         \/ pc[t] = "release" /\ i \in txn[t].locked
         \/ pc[t] = "undo" /\ i \in ToLock(t)
  PROVE  StateInv'
<1>1. /\ SameEntries(t) /\ pc'[t] = pc[t] /\ scheme' = scheme /\ left' = left
      /\ txn'[t].locked = txn[t].locked /\ txn'[t].commitTs = txn[t].commitTs
      /\ txn'[t].done = txn[t].done \cup {i}
  BY DEF DoneStep, Quiet, Others
<1>2. /\ ToLock(t)' = ToLock(t) /\ ToInstall(t)' = ToInstall(t)
      /\ HasSnapshot(t)' = HasSnapshot(t)
  BY <1>1, EntriesKept
<1>3. PcOf(t) /\ LoopOf(t)
  BY DEF StateInv
<1>4. LoopOf(t)'
  BY <1>1, <1>2, <1>3 DEF LoopOf
<1>5. PcOf(t)'
  BY <1>1, <1>2, <1>3 DEF PcOf, Running, SameEntries, Follows
<1> QED
  BY <1>1, <1>4, <1>5, QuietKept

(***************************************************************************)
(* StateInv is kept by every step.                                         *)
(***************************************************************************)
LEMMA StateNext ==
  ASSUME StateInv, VersionInv, StartInv, [Next]_vars PROVE StateInv'
<1>0. ASSUME NEW t \in Thread, Running(t), HasSnapshot(t)
      PROVE  txn[t].start \in Nat /\ threadTs[t] <= txn[t].start
  BY <1>0 DEF StateInv, TypeInv, TxnType, PcOf, StartInv
<1>1. ASSUME NEW t \in Thread, Execute(t) PROVE StateInv'
  <2>1. /\ Others(t) /\ pc[t] = "idle" /\ pc'[t] = "exec"
        /\ txn'[t].procedure \in Procedures
        /\ txn'[t].locked = {} /\ txn'[t].done = {}
        /\ txn'[t].commitTs = 0 /\ DOMAIN txn'[t].accesses = {}
        /\ Follows(txn'[t])
        /\ txn'[t].start = IF HasSnapshot(t)' THEN GetMaxTimestamp ELSE Unread
    BY <1>1, ExecuteStep
  <2>2. Quiet(t)
    BY <1>1, <2>1 DEF Quiet, Execute, content, rest
  <2>3. GetMaxTimestamp \in Nat /\ left' = left /\ left[t] > 0
    BY <2>1, <2>2, MaxThreadTs DEF Quiet, StateInv, PcOf
  <2>4. LoopOf(t)'
    BY <2>1 DEF LoopOf
  <2>5. PcOf(t)'
    BY <2>1, <2>3 DEF PcOf, Running, Unread
  <2> QED
    BY <2>1, <2>2, <2>4, <2>5, QuietKept
<1>2. ASSUME NEW t \in Thread, InsertRecord(t) PROVE StateInv'
  <2>1. Accesses(t, NewEntry(t, 0, Unread)) /\ pc[t] = "exec"
    BY <1>2, InsertStep
  <2>2. Quiet(t)
    BY <1>2, <2>1 DEF Quiet, InsertRecord, content, rest, Accesses
  <2> QED
    BY <2>1, <2>2, AccessesKept
<1>3. ASSUME NEW t \in Thread, SelectSnapshot(t) PROVE StateInv'
  <2>1. Accessing(t) /\ HasSnapshot(t) /\ Access(t).type # "INSERT_ONLY"
    BY <1>3 DEF SelectSnapshot
  <2>2. Running(t) /\ Access(t).record \in Record
    BY <2>1, Accessing1, AccessOf
  <2>3. VersionAt(history[Access(t).record], txn[t].start) \in Nat
    BY <1>0, <2>1, <2>2, SnapshotRead
  <2>4. /\ Accesses(t, NewEntry(t, 0, VersionAt(history[Access(t).record], txn[t].start)))
        /\ pc[t] = "exec"
    BY <1>3, <2>3, SnapshotStep
  <2>5. Quiet(t)
    BY <1>3, <2>4 DEF Quiet, SelectSnapshot, content, rest, Accesses
  <2> QED
    BY <2>4, <2>5, AccessesKept
<1>4. ASSUME NEW t \in Thread, SelectLocked(t) PROVE StateInv'
  <2> DEFINE r == Access(t).record
  <2>1. Accessing(t) /\ Access(t).type = "READ_WRITE" /\ scheme = "SILOCK" /\ HasSnapshot(t)
    BY <1>4 DEF SelectLocked, HasSnapshot
  <2>2. Running(t) /\ r \in Record
    BY <2>1, Accessing1, AccessOf
  <2>3. VersionAt(history[r], txn[t].start) \in Nat
    BY <1>0, <2>1, <2>2, SnapshotRead
  <2>4. /\ pc[t] = "exec"
        /\ IF CanWriteLock(lock[r]) /\ Validate(t, r)
                THEN Accesses(t, NewEntry(t, 0, VersionAt(history[r], txn[t].start)))
                ELSE Others(t) /\ pc'[t] = "undo" /\ txn' = txn
    BY <1>4, <2>3, LockedStep
  <2>5. Quiet(t)
    BY <1>4, <2>4 DEF Quiet, SelectLocked, rest, Accesses
  <2>6. CASE CanWriteLock(lock[r]) /\ Validate(t, r)
    BY <2>4, <2>5, <2>6, AccessesKept
  <2>7. CASE ~(CanWriteLock(lock[r]) /\ Validate(t, r))
    <3>1. /\ pc'[t] = "undo" /\ txn' = txn /\ scheme' = scheme /\ left' = left
          /\ SameEntries(t)
      BY <2>4, <2>5, <2>7 DEF Quiet, Others, SameEntries
    <3>2. /\ ToLock(t)' = ToLock(t) /\ HasSnapshot(t)' = HasSnapshot(t)
          /\ PcOf(t) /\ LoopOf(t)
      BY <3>1, EntriesKept DEF StateInv
    <3>3. LoopOf(t)'
      BY <2>4, <3>1, <3>2 DEF LoopOf
    <3>4. PcOf(t)'
      BY <2>1, <2>4, <3>1, <3>2 DEF PcOf, Running
    <3> QED
      BY <2>5, <3>1, <3>3, <3>4, QuietKept
  <2> QED
    BY <2>6, <2>7
<1>5. ASSUME NEW t \in Thread, SelectNewest(t) PROVE StateInv'
  <2>1. Accessing(t) /\ Access(t).type # "INSERT_ONLY"
    BY <1>5 DEF SelectNewest
  <2>2. Running(t) /\ Access(t).record \in Record
    BY <2>1, Accessing1, AccessOf
  <2>3. latest[Access(t).record] \in Nat
    BY <2>2 DEF StateInv, TypeInv
  <2>4. /\ Others(t) /\ SameEntries(t) /\ pc[t] = "exec" /\ pc'[t] = "read"
        /\ scheme = "MVOCC" /\ ~HasSnapshot(t) /\ Access(t).type # "INSERT_ONLY"
        /\ Len(txn[t].accesses) < Len(txn[t].procedure)
        /\ txn'[t].ts = latest[Access(t).record]
        /\ txn'[t].locked = txn[t].locked /\ txn'[t].done = txn[t].done
        /\ txn'[t].commitTs = txn[t].commitTs
    BY <1>5, <2>3, NewestStep
  <2>5. Quiet(t) /\ left' = left /\ scheme' = scheme
    BY <1>5, <2>4 DEF Quiet, SelectNewest, content, rest
  <2>6. /\ ToLock(t)' = ToLock(t) /\ HasSnapshot(t)' = HasSnapshot(t)
        /\ Access(t)' = Access(t) /\ PcOf(t) /\ LoopOf(t)
    BY <2>4, <2>5, EntriesKept DEF StateInv
  <2>7. LoopOf(t)'
    BY <2>4, <2>6 DEF LoopOf
  <2>8. PcOf(t)'
    <3>1. /\ txn'[t].procedure = txn[t].procedure /\ txn'[t].start = txn[t].start
          /\ txn'[t].accesses = txn[t].accesses
      BY <2>4 DEF SameEntries
    <3>2. Follows(txn'[t])
      BY <2>6, <3>1 DEF PcOf, Follows
    <3> QED
      BY <2>3, <2>4, <2>5, <2>6, <3>1, <3>2 DEF PcOf, Running
  <2> QED
    BY <2>4, <2>5, <2>7, <2>8, QuietKept
<1>6. ASSUME NEW t \in Thread, ReadAccess(t) PROVE StateInv'
  <2>1. pc[t] = "read"
    BY <1>6 DEF ReadAccess
  <2>2. Running(t) /\ Access(t).record \in Record
    <3>1. Running(t) /\ Len(txn[t].accesses) < Len(txn[t].procedure)
          /\ Access(t).type # "INSERT_ONLY"
      BY <2>1 DEF Running, StateInv, PcOf
    <3> QED
      BY <3>1, AccessOf
  <2>3. Newest(history[Access(t).record]) \in Nat
    BY <2>2, NewestIsLatest
  <2>4. Accesses(t, NewEntry(t, txn[t].ts, Newest(history[Access(t).record])))
    BY <1>6, <2>3, ReadStep
  <2>5. Quiet(t)
    BY <1>6, <2>4 DEF Quiet, ReadAccess, content, rest, Accesses
  <2> QED
    BY <2>1, <2>4, <2>5, AccessesKept
<1>7. ASSUME NEW t \in Thread, CommitTransaction(t) PROVE StateInv'
  <2>1. /\ Others(t) /\ SameEntries(t) /\ pc[t] = "exec"
        /\ pc'[t] = IF scheme = "SILOCK" THEN "draw" ELSE "lock"
        /\ scheme = "MVOCC" => ~HasSnapshot(t)
        /\ txn'[t].locked = IF scheme = "SILOCK" THEN ToLock(t) ELSE txn[t].locked
        /\ txn'[t].done = txn[t].done /\ txn'[t].commitTs = txn[t].commitTs
    BY <1>7, CommitStep
  <2>2. Quiet(t) /\ left' = left /\ scheme' = scheme
    BY <1>7, <2>1 DEF Quiet, CommitTransaction, content, rest
  <2>3. /\ ToLock(t)' = ToLock(t) /\ HasSnapshot(t)' = HasSnapshot(t)
        /\ PcOf(t) /\ LoopOf(t)
    BY <2>1, <2>2, EntriesKept DEF StateInv
  <2>4. LoopOf(t)'
    BY <2>1, <2>3 DEF LoopOf
  <2>5. PcOf(t)'
    <3>1. /\ txn'[t].procedure = txn[t].procedure /\ txn'[t].start = txn[t].start
          /\ Follows(txn'[t])
      BY <2>1, <2>3 DEF SameEntries, PcOf, Follows
    <3> QED
      BY <2>1, <2>2, <2>3, <3>1 DEF PcOf, Running
  <2> QED
    BY <2>1, <2>2, <2>4, <2>5, QuietKept
<1>8. ASSUME NEW t \in Thread, AcquireLock(t) PROVE StateInv'
  <2>1. PICK i \in ToLock(t) :
          /\ Others(t) /\ SameEntries(t) /\ pc[t] = "lock"
          /\ pc'[t] \in {"lock", "release"}
          /\ txn'[t].locked = txn[t].locked \cup {i}
          /\ txn'[t].done = txn[t].done /\ txn'[t].commitTs = txn[t].commitTs
    BY <1>8, LockStep
  <2>2. Quiet(t) /\ left' = left /\ scheme' = scheme
    BY <1>8, <2>1 DEF Quiet, AcquireLock, rest
  <2>3. /\ ToLock(t)' = ToLock(t) /\ HasSnapshot(t)' = HasSnapshot(t)
        /\ PcOf(t) /\ LoopOf(t)
    BY <2>1, <2>2, EntriesKept DEF StateInv
  <2>4. LoopOf(t)'
    BY <2>1, <2>3 DEF LoopOf
  <2>5. PcOf(t)'
    <3>1. /\ txn'[t].procedure = txn[t].procedure /\ txn'[t].start = txn[t].start
          /\ Follows(txn'[t])
      BY <2>1, <2>3 DEF SameEntries, PcOf, Follows
    <3> QED
      BY <2>1, <2>2, <2>3, <3>1 DEF PcOf, Running
  <2> QED
    BY <2>1, <2>2, <2>4, <2>5, QuietKept
<1>9. ASSUME NEW t \in Thread, GetMonotoneTimestamp(t) PROVE StateInv'
  <2>1. /\ Others(t) /\ SameEntries(t) /\ pc[t] \in {"lock", "draw"}
        /\ pc'[t] = "install" /\ txn[t].locked = ToLock(t)
        /\ txn'[t].locked = txn[t].locked /\ txn'[t].done = txn[t].done
        /\ txn'[t].commitTs = monotone /\ monotone' = monotone + 1
    BY <1>9, DrawStep
  <2>2. /\ latest' = latest /\ written' = written /\ threadTs' = threadTs
        /\ isFinish' = isFinish /\ left' = left /\ scheme' = scheme
        /\ Commit(t, monotone)
    BY <1>9 DEF GetMonotoneTimestamp, content, rest
  <2>3. /\ ToLock(t)' = ToLock(t) /\ ToInstall(t)' = ToInstall(t)
        /\ HasSnapshot(t)' = HasSnapshot(t) /\ PcOf(t) /\ LoopOf(t) /\ TsOf(t)
        /\ monotone \in Nat \ {0} /\ threadTs[t] \in Nat
    BY <2>1, <2>2, EntriesKept DEF StateInv, TypeInv
  <2>4. TypeInv'
    <3>1. committed' \in SUBSET CommitType
      BY <2>2, <2>3, CommitTyped DEF Commit, StateInv, TypeInv
    <3> QED
      BY <2>1, <2>2, <2>3, <3>1 DEF StateInv, TypeInv, Others
  <2>5. LoopOf(t)'
    BY <2>1, <2>3 DEF LoopOf
  <2>6. PcOf(t)'
    <3>1. /\ txn'[t].procedure = txn[t].procedure /\ txn'[t].start = txn[t].start
          /\ Follows(txn'[t])
      BY <2>1, <2>3 DEF SameEntries, PcOf, Follows
    <3>2. pc[t] = "draw" => scheme # "MVOCC"
      BY <2>3 DEF PcOf
    <3>3. monotone > 0
      BY <2>3
    <3> QED
      BY <2>1, <2>2, <2>3, <3>1, <3>2, <3>3 DEF PcOf, Running
  <2>7. TsOf(t)'
    BY <2>1, <2>2, <2>3 DEF TsOf
  <2>8. \A u \in Thread : u # t => PcOf(u)' /\ LoopOf(u)' /\ TsOf(u)'
    <3>1. monotone' \in Nat /\ monotone' >= monotone
      BY <2>1, <2>3
    <3> QED
      BY <2>1, <2>2, <3>1, OthersKept
  <2> QED
    BY <2>4, <2>5, <2>6, <2>7, <2>8 DEF StateInv
<1>10. ASSUME NEW t \in Thread, WriteAccess(t) PROVE StateInv'
  <2> DEFINE i == NextInstall(t)
             r == txn[t].accesses[i].record
  <2>1. /\ DoneStep(t, i) /\ pc[t] = "install"
        /\ i \in ToInstall(t) \ txn[t].done /\ r \in Record
        /\ latest' = [latest EXCEPT ![r] = txn[t].commitTs]
        /\ written' = [written EXCEPT ![r] = written[r] \cup {txn[t].commitTs}]
    BY <1>10, WriteStep
  <2>2. /\ threadTs' = threadTs /\ isFinish' = isFinish /\ left' = left
        /\ scheme' = scheme /\ monotone' = monotone /\ committed' = committed
    BY <1>10 DEF WriteAccess, rest
  <2> HIDE DEF i, r
  <2>3. /\ SameEntries(t) /\ Others(t) /\ pc'[t] = pc[t]
        /\ txn'[t].locked = txn[t].locked /\ txn'[t].commitTs = txn[t].commitTs
        /\ txn'[t].done = txn[t].done \cup {i}
    BY <2>1 DEF DoneStep
  <2>4. /\ ToLock(t)' = ToLock(t) /\ ToInstall(t)' = ToInstall(t)
        /\ HasSnapshot(t)' = HasSnapshot(t) /\ PcOf(t) /\ LoopOf(t) /\ TsOf(t)
        /\ monotone \in Nat \ {0} /\ txn[t].commitTs \in Nat
    BY <2>2, <2>3, EntriesKept DEF StateInv, TypeInv, TxnType
  <2>5. TypeInv'
    <3>1. /\ latest' \in [Record -> Nat] /\ written' \in [Record -> SUBSET Nat]
      BY <2>1, <2>4 DEF StateInv, TypeInv
    <3> QED
      BY <2>2, <2>3, <3>1 DEF StateInv, TypeInv, Others
  <2>6. LoopOf(t)'
    BY <2>1, <2>3, <2>4 DEF LoopOf
  <2>7. PcOf(t)'
    BY <2>1, <2>2, <2>3, <2>4 DEF PcOf, Running, SameEntries, Follows
  <2>8. TsOf(t)'
    BY <2>2, <2>3, <2>4 DEF TsOf
  <2>9. \A u \in Thread : u # t => PcOf(u)' /\ LoopOf(u)' /\ TsOf(u)'
    <3>1. monotone' \in Nat /\ monotone' >= monotone
      BY <2>2, <2>4
    <3> QED
      BY <2>2, <2>3, <3>1, OthersKept
  <2> QED
    BY <2>5, <2>6, <2>7, <2>8, <2>9 DEF StateInv
<1>11. ASSUME NEW t \in Thread, EndInstall(t) PROVE StateInv'
  <2>1. /\ Others(t) /\ SameEntries(t) /\ pc[t] = "install" /\ pc'[t] = "release"
        /\ txn'[t].locked = txn[t].locked /\ txn'[t].done = {}
        /\ txn'[t].commitTs = txn[t].commitTs
    BY <1>11, EndInstallStep
  <2>2. Quiet(t) /\ left' = left /\ scheme' = scheme
    BY <1>11, <2>1 DEF Quiet, EndInstall, content, rest
  <2>3. /\ ToLock(t)' = ToLock(t) /\ HasSnapshot(t)' = HasSnapshot(t)
        /\ PcOf(t) /\ LoopOf(t)
    BY <2>1, <2>2, EntriesKept DEF StateInv
  <2>4. LoopOf(t)'
    BY <2>1, <2>3 DEF LoopOf
  <2>5. PcOf(t)'
    BY <2>1, <2>2, <2>3 DEF PcOf, Running, SameEntries, Follows
  <2> QED
    BY <2>1, <2>2, <2>4, <2>5, QuietKept
<1>12. ASSUME NEW t \in Thread, ReleaseLock(t) PROVE StateInv'
  <2>1. PICK i \in txn[t].locked \ txn[t].done : GivenBack(t, i) /\ pc[t] = "release"
    BY <1>12, ReleaseStep
  <2>2. DoneStep(t, i) /\ i \in Nat
    BY <2>1, AccessesOf DEF GivenBack
  <2>3. Quiet(t)
    BY <1>12, <2>2 DEF Quiet, ReleaseLock, rest, DoneStep
  <2> QED
    BY <2>1, <2>2, <2>3, DoneKept
<1>13. ASSUME NEW t \in Thread, ReleaseAborted(t) PROVE StateInv'
  <2>1. PICK i \in ToLock(t) \ txn[t].done : GivenBack(t, i) /\ pc[t] = "undo"
    BY <1>13, AbortStep
  <2>2. DoneStep(t, i) /\ i \in Nat
    BY <2>1, AccessesOf DEF GivenBack
  <2>3. Quiet(t)
    BY <1>13, <2>2 DEF Quiet, ReleaseAborted, rest, DoneStep
  <2> QED
    BY <2>1, <2>2, <2>3, DoneKept
<1>14. ASSUME NEW t \in Thread,
              SetThreadTimestamp(t) \/ CommitReadOnly(t) \/ ReturnAborted(t)
       PROVE  StateInv'
  <2>1. /\ Others(t) /\ txn'[t] = NoTxn /\ pc'[t] \in {"idle", "done"}
        /\ SetThreadTimestamp(t) => pc[t] = "release"
        /\ CommitReadOnly(t) => pc[t] = "exec"
        /\ ReturnAborted(t) => pc[t] \in {"release", "undo"}
    BY <1>14, EndStep DEF Ends
  <2>2. /\ latest' = latest /\ written' = written /\ scheme' = scheme
        /\ monotone' = monotone /\ monotone \in Nat \ {0}
        /\ isFinish \in BOOLEAN /\ left \in [Thread -> 0..Batch] /\ left[t] > 0
        /\ threadTs \in [Thread -> Nat] /\ txn[t].commitTs \in Nat
        /\ txn[t].commitTs < monotone /\ threadTs[t] < monotone
        /\ Batch \in Nat
    <3>1. pc[t] # "done"
      BY <1>14, <2>1
    <3> QED
      BY <1>14, <3>1 DEF SetThreadTimestamp, CommitReadOnly, ReturnAborted, content, rest,
         StateInv, TypeInv, TxnType, PcOf, TsOf, SnapshotConstants
  <2>3. isFinish' \in BOOLEAN
    BY <1>14, <2>2 DEF SetThreadTimestamp, CommitReadOnly, ReturnAborted, rest
  <2>4. /\ left' \in [Thread -> 0..Batch] /\ \A u \in Thread : u # t => left'[u] = left[u]
        /\ pc'[t] # "done" => left'[t] > 0
    <3>1. CASE left' = [left EXCEPT ![t] = @ - 1]
      <4>1. left'[t] = left[t] - 1 /\ left[t] \in 0..Batch /\ left[t] - 1 \in 0..Batch
        BY <2>2, <3>1
      <4>2. left' \in [Thread -> 0..Batch] /\ \A u \in Thread : u # t => left'[u] = left[u]
        BY <2>2, <3>1, <4>1
      <4>3. ASSUME pc'[t] # "done", left' # left PROVE left[t] # 1
        <5>1. ~ReturnAborted(t)
          BY <4>3 DEF ReturnAborted, rest
        <5>2. /\ isFinish' = (isFinish \/ left[t] = 1)
              /\ pc' = [pc EXCEPT ![t] = IF isFinish' THEN "done" ELSE "idle"]
          BY <1>14, <5>1 DEF SetThreadTimestamp, CommitReadOnly
        <5>3. ~isFinish'
          BY <4>3, <5>2 DEF StateInv, TypeInv
        <5> QED
          BY <5>2, <5>3
      <4>4. left' # left
        BY <2>2, <4>1
      <4> QED
        BY <2>2, <4>1, <4>2, <4>3, <4>4
    <3>2. CASE left' = left
      BY <2>2, <3>2
    <3> QED
      BY <1>14, <3>1, <3>2 DEF SetThreadTimestamp, CommitReadOnly, ReturnAborted, rest
  <2>5. /\ threadTs' \in [Thread -> Nat] /\ threadTs'[t] < monotone
        /\ \A u \in Thread : u # t => threadTs'[u] = threadTs[u]
    BY <1>14, <2>2 DEF SetThreadTimestamp, CommitReadOnly, ReturnAborted, rest
  <2>6. committed' \in SUBSET CommitType
    <3>1. CASE CommitReadOnly(t)
      <4>1. Commit(t, 0) /\ 0 \in Nat
        BY <3>1 DEF CommitReadOnly
      <4> QED
        BY <4>1, CommitTyped DEF Commit, StateInv, TypeInv
    <3>2. CASE ~CommitReadOnly(t)
      BY <1>14, <3>2 DEF SetThreadTimestamp, ReturnAborted, StateInv, TypeInv
    <3> QED
      BY <3>1, <3>2
  <2>7. TypeInv'
    BY <2>1, <2>2, <2>3, <2>4, <2>5, <2>6 DEF StateInv, TypeInv, Others
  <2>8. LoopOf(t)'
    BY <2>1, NoTxnType DEF LoopOf
  <2>9. PcOf(t)'
    BY <2>1, <2>4, NoTxnType DEF PcOf, Running
  <2>10. TsOf(t)'
    BY <2>1, <2>2, <2>5, NoTxnType DEF TsOf
  <2>11. \A u \in Thread : u # t => PcOf(u)' /\ LoopOf(u)' /\ TsOf(u)'
    <3>1. monotone' \in Nat /\ monotone' >= monotone
      BY <2>2
    <3> QED
      BY <2>1, <2>4, <2>5, <3>1, OthersKept
  <2> QED
    BY <2>7, <2>8, <2>9, <2>10, <2>11 DEF StateInv
<1>15. CASE UNCHANGED vars
  <2>1. /\ scheme' = scheme /\ latest' = latest /\ written' = written
        /\ monotone' = monotone /\ threadTs' = threadTs /\ isFinish' = isFinish
        /\ pc' = pc /\ left' = left /\ txn' = txn /\ committed' = committed
    BY <1>15 DEF vars, content, rest
  <2>2. TypeInv'
    BY <2>1 DEF StateInv, TypeInv
  <2>3. ASSUME NEW t \in Thread PROVE PcOf(t)' /\ LoopOf(t)' /\ TsOf(t)'
    <3>1. PcOf(t) /\ LoopOf(t) /\ TsOf(t) /\ SameEntries(t)
      BY <2>1 DEF StateInv, SameEntries
    <3>2. /\ ToLock(t)' = ToLock(t) /\ ToInstall(t)' = ToInstall(t)
          /\ HasSnapshot(t)' = HasSnapshot(t) /\ Access(t)' = Access(t)
      BY <2>1, <3>1, EntriesKept
    <3> QED
      BY <2>1, <3>1, <3>2 DEF PcOf, LoopOf, TsOf, Running
  <2> QED
    BY <2>2, <2>3 DEF StateInv
<1> QED
  BY <1>1, <1>2, <1>3, <1>4, <1>5, <1>6, <1>7, <1>8, <1>9, <1>10, <1>11, <1>12,
     <1>13, <1>14, <1>15 DEF Next, Step, Joined

-----------------------------------------------------------------------------
(***************************************************************************)
(* Locks.  The entries whose records a transaction holds locked: under     *)
(* SILOCK from the access on, under the others from the commit on.         *)
(***************************************************************************)
HeldEntries(t) ==
  IF pc[t] \in {"exec", "undo"} /\ scheme = "SILOCK" THEN ToLock(t) \ txn[t].done
  ELSE IF pc[t] = "release" THEN txn[t].locked \ txn[t].done
  ELSE txn[t].locked

ReadHeld(t) ==
  {txn[t].accesses[i].record :
    i \in {j \in HeldEntries(t) : txn[t].accesses[j].type = "READ_ONLY"}}

WriteHeld(t) ==
  {txn[t].accesses[i].record :
    i \in {j \in HeldEntries(t) : txn[t].accesses[j].type # "READ_ONLY"}}

Readers(r) == {t \in Thread : r \in ReadHeld(t)}
Writers(r) == {t \in Thread : r \in WriteHeld(t)}

LockOf(r) ==
  /\ lock[r].readers = Cardinality(Readers(r))
  /\ lock[r].type = IF Writers(r) # {} THEN "WRITE_LOCK"
                    ELSE IF Readers(r) # {} THEN "READ_LOCK" ELSE "NO_LOCK"
  /\ Writers(r) # {} => Readers(r) = {}
  /\ \A t, u \in Writers(r) : t = u

LockInv == lock \in [Record -> LockType] /\ \A r \in Record : LockOf(r)

(***************************************************************************)
(* How the records that a thread holds follow from the entries.            *)
(***************************************************************************)
HeldSame(t) == ReadHeld(t)' = ReadHeld(t) /\ WriteHeld(t)' = WriteHeld(t)

(***************************************************************************)
(* What is held is among the entries to lock.                              *)
(***************************************************************************)
LEMMA HeldLocks ==
  ASSUME StateInv, NEW t \in Thread
  PROVE  HeldEntries(t) \subseteq ToLock(t) /\ HeldEntries(t) \subseteq DOMAIN txn[t].accesses
<1>1. LoopOf(t)
  BY DEF StateInv
<1> QED
  BY <1>1, LoopsInList DEF HeldEntries, LoopOf

(***************************************************************************)
(* The records held follow from the entries held.                          *)
(***************************************************************************)
LEMMA HeldMap ==
  ASSUME NEW t, HeldEntries(t)' = HeldEntries(t),
         \A i \in HeldEntries(t) : txn'[t].accesses[i] = txn[t].accesses[i]
  PROVE  HeldSame(t)
<1>1. ReadHeld(t)' = ReadHeld(t)
  BY DEF ReadHeld
<1>2. WriteHeld(t)' = WriteHeld(t)
  BY DEF WriteHeld
<1> QED
  BY <1>1, <1>2 DEF HeldSame

(***************************************************************************)
(* A step of one thread leaves what the others hold alone.                 *)
(***************************************************************************)
LEMMA OthersHold ==
  ASSUME NEW t \in Thread, Others(t), NEW u \in Thread, u # t
  PROVE  HeldSame(u) /\ HeldEntries(u)' = HeldEntries(u)
<1>1. txn'[u] = txn[u] /\ pc'[u] = pc[u] /\ scheme' = scheme
  BY DEF Others
<1>2. ToLock(u)' = ToLock(u)
  BY <1>1, EntriesKept DEF SameEntries
<1>3. HeldEntries(u)' = HeldEntries(u)
  BY <1>1, <1>2 DEF HeldEntries
<1> QED
  BY <1>1, <1>3, HeldMap

(***************************************************************************)
(* One more entry held is one more record, read- or write-locked.          *)
(***************************************************************************)
LEMMA HeldAdded ==
  ASSUME NEW t, NEW n, NEW e, HeldEntries(t)' = HeldEntries(t) \cup {n},
         txn'[t].accesses[n] = e,
         \A i \in HeldEntries(t) : txn'[t].accesses[i] = txn[t].accesses[i]
  PROVE  IF e.type = "READ_ONLY"
         THEN ReadHeld(t)' = ReadHeld(t) \cup {e.record} /\ WriteHeld(t)' = WriteHeld(t)
         ELSE ReadHeld(t)' = ReadHeld(t) /\ WriteHeld(t)' = WriteHeld(t) \cup {e.record}
<1>1. CASE e.type = "READ_ONLY"
  <2>1. ReadHeld(t)' = ReadHeld(t) \cup {e.record}
    BY <1>1 DEF ReadHeld
  <2>2. WriteHeld(t)' = WriteHeld(t)
    BY <1>1 DEF WriteHeld
  <2> QED
    BY <1>1, <2>1, <2>2
<1>2. CASE e.type # "READ_ONLY"
  <2>1. ReadHeld(t)' = ReadHeld(t)
    BY <1>2 DEF ReadHeld
  <2>2. WriteHeld(t)' = WriteHeld(t) \cup {e.record}
    BY <1>2 DEF WriteHeld
  <2> QED
    BY <1>2, <2>1, <2>2
<1> QED
  BY <1>1, <1>2

(***************************************************************************)
(* One entry less is one record less, for no record has two entries.       *)
(***************************************************************************)
LEMMA HeldRemoved ==
  ASSUME StateInv, NEW t \in Thread, NEW i \in HeldEntries(t),
         HeldEntries(t)' = HeldEntries(t) \ {i},
         txn'[t].accesses = txn[t].accesses
  PROVE  LET e == txn[t].accesses[i]
         IN  IF e.type = "READ_ONLY"
             THEN /\ ReadHeld(t)' = ReadHeld(t) \ {e.record}
                  /\ e.record \in ReadHeld(t) /\ WriteHeld(t)' = WriteHeld(t)
             ELSE /\ WriteHeld(t)' = WriteHeld(t) \ {e.record}
                  /\ e.record \in WriteHeld(t) /\ ReadHeld(t)' = ReadHeld(t)
<1> DEFINE e == txn[t].accesses[i]
           a == txn[t].accesses
<1>1. \A j \in HeldEntries(t) : a[j].record = e.record => j = i
  <2>1. \A j \in HeldEntries(t) : j \in DOMAIN a /\ a[j].type # "INSERT_ONLY"
    BY HeldLocks DEF ToLock, Locks
  <2> QED
    BY <2>1, AccessesOf
<1>2. CASE e.type = "READ_ONLY"
  <2>1. ReadHeld(t)' = ReadHeld(t) \ {e.record} /\ e.record \in ReadHeld(t)
    BY <1>1, <1>2 DEF ReadHeld
  <2>2. WriteHeld(t)' = WriteHeld(t)
    BY <1>1, <1>2 DEF WriteHeld
  <2> QED
    BY <1>2, <2>1, <2>2
<1>3. CASE e.type # "READ_ONLY"
  <2>1. WriteHeld(t)' = WriteHeld(t) \ {e.record} /\ e.record \in WriteHeld(t)
    BY <1>1, <1>3 DEF WriteHeld
  <2>2. ReadHeld(t)' = ReadHeld(t)
    BY <1>1, <1>3 DEF ReadHeld
  <2> QED
    BY <1>3, <2>1, <2>2
<1> QED
  BY <1>2, <1>3

(***************************************************************************)
(* A step that takes and gives back no lock.                               *)
(***************************************************************************)
LEMMA LockFrame ==
  ASSUME LockInv, lock' = lock, \A t \in Thread : HeldSame(t)
  PROVE  LockInv'
<1>1. ASSUME NEW r \in Record PROVE Readers(r)' = Readers(r) /\ Writers(r)' = Writers(r)
  BY DEF Readers, Writers, HeldSame
<1> QED
  BY <1>1 DEF LockInv, LockOf

(***************************************************************************)
(* Thread t takes the lock of r.                                           *)
(***************************************************************************)
LEMMA LockTaken ==
  ASSUME SnapshotConstants, LockInv, NEW t \in Thread, NEW r \in Record, NEW read \in BOOLEAN,
         \A u \in Thread : u # t => HeldSame(u),
         r \notin ReadHeld(t),
         IF read
         THEN /\ CanReadLock(lock[r])
              /\ lock' = [lock EXCEPT ![r] = ReadLocked(lock[r])]
              /\ ReadHeld(t)' = ReadHeld(t) \cup {r} /\ WriteHeld(t)' = WriteHeld(t)
         ELSE /\ CanWriteLock(lock[r])
              /\ lock' = [lock EXCEPT ![r] = WriteLocked(lock[r])]
              /\ WriteHeld(t)' = WriteHeld(t) \cup {r} /\ ReadHeld(t)' = ReadHeld(t)
  PROVE  LockInv'
<1>1. lock \in [Record -> LockType] /\ lock[r] \in LockType
  BY DEF LockInv
<1>2. ASSUME NEW q \in Record, q # r PROVE LockOf(q)'
  <2>1. Readers(q)' = Readers(q) /\ Writers(q)' = Writers(q)
    BY <1>2 DEF Readers, Writers, HeldSame
  <2>2. lock'[q] = lock[q]
    BY <1>1, <1>2
  <2> QED
    BY <2>1, <2>2 DEF LockInv, LockOf
<1>3. IsFiniteSet(Readers(r)) /\ t \notin Readers(r)
  BY FS_Subset DEF SnapshotConstants, Readers
<1>4. LockOf(r)
  BY DEF LockInv
<1>5. CASE read
  <2>1. Readers(r)' = Readers(r) \cup {t}
    BY <1>5 DEF Readers, HeldSame
  <2>2. Writers(r)' = Writers(r)
    BY <1>5 DEF Writers, HeldSame
  <2>3. Cardinality(Readers(r)') = Cardinality(Readers(r)) + 1
    BY <1>3, <2>1, FS_AddElement
  <2>4. lock'[r].type = "READ_LOCK" /\ lock'[r].readers = lock[r].readers + 1
    BY <1>1, <1>5 DEF ReadLocked
  <2>5. Writers(r) = {} /\ lock[r].readers = Cardinality(Readers(r))
    BY <1>4, <1>5 DEF CanReadLock, LockOf
  <2>6. LockOf(r)'
    BY <2>1, <2>2, <2>3, <2>4, <2>5 DEF LockOf
  <2>7. ReadLocked(lock[r]) \in LockType
    BY <1>1 DEF ReadLocked, LockType
  <2>8. lock' \in [Record -> LockType]
    BY <1>1, <1>5, <2>7
  <2> QED
    BY <1>2, <2>6, <2>8 DEF LockInv
<1>6. CASE ~read
  <2>1. Readers(r)' = Readers(r)
    BY <1>6 DEF Readers, HeldSame
  <2>2. Writers(r)' = Writers(r) \cup {t}
    BY <1>6 DEF Writers, HeldSame
  <2>3. lock'[r].type = "WRITE_LOCK" /\ lock'[r].readers = lock[r].readers
    BY <1>1, <1>6 DEF WriteLocked, LockType
  <2>4. Writers(r) = {} /\ Readers(r) = {}
    BY <1>4, <1>6 DEF CanWriteLock, LockOf
  <2>5. lock[r].readers = Cardinality(Readers(r))
    BY <1>4 DEF LockOf
  <2>6. LockOf(r)'
    BY <2>1, <2>2, <2>3, <2>4, <2>5 DEF LockOf
  <2>7. WriteLocked(lock[r]) \in LockType
    BY <1>1 DEF WriteLocked, LockType
  <2>8. lock' \in [Record -> LockType]
    BY <1>1, <1>6, <2>7
  <2> QED
    BY <1>2, <2>6, <2>8 DEF LockInv
<1> QED
  BY <1>5, <1>6

(***************************************************************************)
(* Thread t gives the lock of r back.                                      *)
(***************************************************************************)
LEMMA LockGivenBack ==
  ASSUME SnapshotConstants, LockInv, NEW t \in Thread, NEW r \in Record, NEW read \in BOOLEAN,
         \A u \in Thread : u # t => HeldSame(u),
         IF read
         THEN /\ lock' = [lock EXCEPT ![r] = ReadReleased(lock[r])] /\ r \in ReadHeld(t)
              /\ ReadHeld(t)' = ReadHeld(t) \ {r} /\ WriteHeld(t)' = WriteHeld(t)
         ELSE /\ lock' = [lock EXCEPT ![r] = WriteReleased(lock[r])] /\ r \in WriteHeld(t)
              /\ WriteHeld(t)' = WriteHeld(t) \ {r} /\ ReadHeld(t)' = ReadHeld(t)
  PROVE  LockInv'
<1>1. lock \in [Record -> LockType] /\ lock[r] \in LockType
  BY DEF LockInv
<1>2. ASSUME NEW q \in Record, q # r PROVE LockOf(q)'
  <2>1. Readers(q)' = Readers(q) /\ Writers(q)' = Writers(q)
    BY <1>2 DEF Readers, Writers, HeldSame
  <2>2. lock'[q] = lock[q]
    BY <1>1, <1>2
  <2> QED
    BY <2>1, <2>2 DEF LockInv, LockOf
<1>3. IsFiniteSet(Readers(r))
  BY FS_Subset DEF SnapshotConstants, Readers
<1>4. LockOf(r)
  BY DEF LockInv
<1>5. CASE read
  <2>1. Readers(r)' = Readers(r) \ {t} /\ t \in Readers(r)
    BY <1>5 DEF Readers, HeldSame
  <2>2. Writers(r)' = Writers(r)
    BY <1>5 DEF Writers, HeldSame
  <2>3. /\ Cardinality(Readers(r)') = Cardinality(Readers(r)) - 1
        /\ IsFiniteSet(Readers(r)')
    BY <1>3, <2>1, FS_RemoveElement
  <2>4. lock[r].type = "READ_LOCK" /\ Writers(r) = {}
    BY <1>4, <2>1 DEF LockOf
  <2>5. lock'[r] = ReadReleased(lock[r])
    BY <1>1, <1>5
  <2>6. /\ lock[r].readers = Cardinality(Readers(r))
        /\ lock'[r].readers = lock[r].readers - 1
        /\ lock'[r].type = IF lock[r].readers = 1 THEN "NO_LOCK" ELSE "READ_LOCK"
    BY <1>4, <2>4, <2>5 DEF ReadReleased, LockOf
  <2>7. /\ Readers(r)' = {} <=> lock[r].readers = 1
        /\ lock[r].readers # 0
    BY <1>1, <1>3, <2>1, <2>3, <2>6, FS_EmptySet, FS_CardinalityType DEF LockType
  <2>8. LockOf(r)'
    BY <2>2, <2>3, <2>4, <2>6, <2>7 DEF LockOf
  <2>9. ReadReleased(lock[r]) \in LockType
    BY <1>1, <2>7 DEF ReadReleased, LockType
  <2>10. lock' \in [Record -> LockType]
    BY <1>1, <1>5, <2>9
  <2> QED
    BY <1>2, <2>8, <2>10 DEF LockInv
<1>6. CASE ~read
  <2>1. Readers(r)' = Readers(r)
    BY <1>6 DEF Readers, HeldSame
  <2>2. Writers(r)' = Writers(r) \ {t} /\ t \in Writers(r)
    BY <1>6 DEF Writers, HeldSame
  <2>3. Writers(r)' = {} /\ Readers(r) = {}
    BY <1>4, <2>2 DEF LockOf
  <2>4. lock'[r].type = "NO_LOCK" /\ lock'[r].readers = lock[r].readers
    BY <1>1, <1>6 DEF WriteReleased, LockType
  <2>5. lock[r].readers = Cardinality(Readers(r))
    BY <1>4 DEF LockOf
  <2>6. LockOf(r)'
    BY <2>1, <2>3, <2>4, <2>5 DEF LockOf
  <2>7. WriteReleased(lock[r]) \in LockType
    BY <1>1 DEF WriteReleased, LockType
  <2>8. lock' \in [Record -> LockType]
    BY <1>1, <1>6, <2>7
  <2> QED
    BY <1>2, <2>6, <2>8 DEF LockInv
<1> QED
  BY <1>5, <1>6

(***************************************************************************)
(* What an access adds to the entries that are held.                       *)
(***************************************************************************)
LEMMA AccessesHeld ==
  ASSUME StateInv, NEW t \in Thread, NEW e, Accesses(t, e), pc[t] \in {"exec", "read"}
  PROVE  IF scheme = "SILOCK" /\ Locks(e)
         THEN HeldEntries(t)' = HeldEntries(t) \cup {Len(txn[t].accesses) + 1}
         ELSE HeldEntries(t)' = HeldEntries(t)
<1>1. /\ Others(t) /\ pc'[t] = "exec" /\ Appended(t, e) /\ scheme' = scheme
  BY DEF Accesses, Others
<1>2. txn'[t].locked = txn[t].locked /\ txn'[t].done = txn[t].done
  BY <1>1 DEF Appended
<1>3. LoopOf(t) /\ PcOf(t)
  BY DEF StateInv
<1>4. txn[t].done = {} /\ txn[t].locked = {} /\ (scheme = "SILOCK" => pc[t] = "exec")
  BY <1>3 DEF LoopOf, PcOf
<1>5. ToLock(t)' = ToLock(t) \cup (IF Locks(e) THEN {Len(txn[t].accesses) + 1} ELSE {})
  BY <1>1, AppendedLoops
<1> QED
  BY <1>1, <1>2, <1>4, <1>5 DEF HeldEntries

(***************************************************************************)
(* A new access leaves the entries held as they are.                       *)
(***************************************************************************)
LEMMA AccessesHeldMap ==
  ASSUME StateInv, NEW t \in Thread, NEW e, Accesses(t, e)
  PROVE  /\ txn'[t].accesses[Len(txn[t].accesses) + 1] = e
         /\ \A i \in HeldEntries(t) : txn'[t].accesses[i] = txn[t].accesses[i]
BY HeldLocks DEF Accesses, Appended

(***************************************************************************)
(* Steps that leave the entries that are held alone.                       *)
(***************************************************************************)
LEMMA UnheldStep ==
  ASSUME StateInv, LockInv, NEW t \in Thread, Others(t), lock' = lock,
         HeldEntries(t)' = HeldEntries(t),
         \A i \in HeldEntries(t) : txn'[t].accesses[i] = txn[t].accesses[i]
  PROVE  LockInv'
<1>1. HeldSame(t)
  BY HeldMap
<1>2. \A u \in Thread : u # t => HeldSame(u)
  BY OthersHold
<1> QED
  BY <1>1, <1>2, LockFrame

(***************************************************************************)
(* At the start no lock is held.                                           *)
(***************************************************************************)
LEMMA LockInit ==
  ASSUME SnapshotConstants, Init PROVE LockInv
<1> USE DEF Init, SnapshotConstants
<1>1. lock \in [Record -> LockType]
  BY DEF NoLock, LockType
<1>2. ASSUME NEW t \in Thread PROVE ReadHeld(t) = {} /\ WriteHeld(t) = {}
  <2>1. HeldEntries(t) = {}
    BY NoTxnType DEF HeldEntries
  <2> QED
    BY <2>1 DEF ReadHeld, WriteHeld
<1>3. ASSUME NEW r \in Record PROVE LockOf(r)
  <2>1. Readers(r) = {} /\ Writers(r) = {}
    BY <1>2 DEF Readers, Writers
  <2> QED
    BY <2>1, FS_EmptySet DEF NoLock, LockOf
<1> QED
  BY <1>1, <1>3 DEF LockInv

-----------------------------------------------------------------------------
(***************************************************************************)
(* A step gives back a lock.                                               *)
(***************************************************************************)
LEMMA GivenBackKept ==
  ASSUME StateInv, LockInv, NEW t \in Thread, NEW i \in HeldEntries(t), GivenBack(t, i),
         HeldEntries(t)' = HeldEntries(t) \ {i}
  PROVE  LockInv'
<1> DEFINE e == txn[t].accesses[i]
           read == e.type = "READ_ONLY"
<1>1. /\ DoneStep(t, i) /\ e.record \in Record
      /\ lock' = [lock EXCEPT ![e.record] =
           IF e.type = "READ_ONLY" THEN ReadReleased(lock[e.record])
           ELSE WriteReleased(lock[e.record])]
  BY DEF GivenBack
<1>2. Others(t) /\ txn'[t].accesses = txn[t].accesses
  BY <1>1 DEF DoneStep, SameEntries
<1>3. IF read
      THEN /\ ReadHeld(t)' = ReadHeld(t) \ {e.record}
           /\ e.record \in ReadHeld(t) /\ WriteHeld(t)' = WriteHeld(t)
      ELSE /\ WriteHeld(t)' = WriteHeld(t) \ {e.record}
           /\ e.record \in WriteHeld(t) /\ ReadHeld(t)' = ReadHeld(t)
  BY <1>2, HeldRemoved
<1>4. \A u \in Thread : u # t => HeldSame(u)
  BY <1>2, OthersHold
<1>5. SnapshotConstants /\ read \in BOOLEAN
  BY DEF StateInv, TypeInv
<1>6. IF read
      THEN /\ lock' = [lock EXCEPT ![e.record] = ReadReleased(lock[e.record])]
           /\ e.record \in ReadHeld(t)
           /\ ReadHeld(t)' = ReadHeld(t) \ {e.record} /\ WriteHeld(t)' = WriteHeld(t)
      ELSE /\ lock' = [lock EXCEPT ![e.record] = WriteReleased(lock[e.record])]
           /\ e.record \in WriteHeld(t)
           /\ WriteHeld(t)' = WriteHeld(t) \ {e.record} /\ ReadHeld(t)' = ReadHeld(t)
  BY <1>1, <1>3
<1> HIDE DEF read, e
<1> QED
  BY <1>1, <1>4, <1>5, <1>6, LockGivenBack

(***************************************************************************)
(* The locks agree with who holds them.                                    *)
(***************************************************************************)
LEMMA LockNext ==
  ASSUME StateInv, VersionInv, StartInv, LockInv, [Next]_vars PROVE LockInv'
<1>0. ASSUME NEW t \in Thread, Running(t), HasSnapshot(t)
      PROVE  txn[t].start \in Nat /\ threadTs[t] <= txn[t].start
  BY <1>0 DEF StateInv, TypeInv, TxnType, PcOf, StartInv
<1>1. ASSUME NEW t \in Thread, Execute(t) PROVE LockInv'
  <2>1. /\ Others(t) /\ pc[t] = "idle" /\ pc'[t] = "exec"
        /\ txn'[t].locked = {} /\ DOMAIN txn'[t].accesses = {}
    BY <1>1, ExecuteStep
  <2>2. ToLock(t)' = {}
    BY <2>1 DEF ToLock
  <2>3. txn[t].locked = {}
    BY <2>1, NoTxnType DEF StateInv, PcOf, Running
  <2>4. HeldEntries(t)' = {} /\ HeldEntries(t) = {}
    BY <2>1, <2>2, <2>3 DEF HeldEntries
  <2>5. lock' = lock
    BY <1>1 DEF Execute, content
  <2> QED
    BY <2>1, <2>4, <2>5, UnheldStep
<1>a. ASSUME NEW t \in Thread, NEW e, Accesses(t, e), lock' = lock,
             pc[t] \in {"exec", "read"}, ~(scheme = "SILOCK" /\ Locks(e))
      PROVE  LockInv'
  <2>1. HeldEntries(t)' = HeldEntries(t)
    BY <1>a, AccessesHeld
  <2>2. Others(t)
    BY <1>a DEF Accesses
  <2> QED
    BY <1>a, <2>1, <2>2, AccessesHeldMap, UnheldStep
<1>2. ASSUME NEW t \in Thread, InsertRecord(t) PROVE LockInv'
  <2> DEFINE e == NewEntry(t, 0, Unread)
  <2>1. Accesses(t, e) /\ pc[t] = "exec" /\ Access(t).type = "INSERT_ONLY" /\ lock' = lock
    BY <1>2, InsertStep DEF InsertRecord, content
  <2>2. ~Locks(e)
    BY <2>1 DEF Locks, Accesses
  <2> HIDE DEF e
  <2> QED
    BY <1>a, <2>1, <2>2
<1>3. ASSUME NEW t \in Thread, SelectSnapshot(t) PROVE LockInv'
  <2> DEFINE e == NewEntry(t, 0, VersionAt(history[Access(t).record], txn[t].start))
  <2>1. Accessing(t) /\ HasSnapshot(t) /\ Access(t).type # "INSERT_ONLY" /\ lock' = lock
    BY <1>3 DEF SelectSnapshot, content
  <2>2. Running(t) /\ Access(t).record \in Record
    BY <2>1, Accessing1, AccessOf
  <2>3. VersionAt(history[Access(t).record], txn[t].start) \in Nat
    BY <1>0, <2>1, <2>2, SnapshotRead
  <2>4. /\ Accesses(t, e) /\ pc[t] = "exec" /\ Access(t).type # "INSERT_ONLY"
        /\ Access(t).type = "READ_WRITE" => scheme = "SIOCC"
    BY <1>3, <2>3, SnapshotStep
  <2>5. ~(scheme = "SILOCK" /\ Locks(e))
    BY <2>4 DEF Locks, Accesses
  <2> HIDE DEF e
  <2> QED
    BY <1>a, <2>1, <2>4, <2>5
<1>4. ASSUME NEW t \in Thread, SelectLocked(t) PROVE LockInv'
  <2> DEFINE r == Access(t).record
             e == NewEntry(t, 0, VersionAt(history[r], txn[t].start))
             n == Len(txn[t].accesses) + 1
  <2>1. Accessing(t) /\ Access(t).type = "READ_WRITE" /\ scheme = "SILOCK" /\ HasSnapshot(t)
    BY <1>4 DEF SelectLocked, HasSnapshot
  <2>2. Running(t) /\ r \in Record
    BY <2>1, Accessing1, AccessOf
  <2>3. VersionAt(history[r], txn[t].start) \in Nat
    BY <1>0, <2>1, <2>2, SnapshotRead
  <2>4. /\ pc[t] = "exec"
        /\ IF CanWriteLock(lock[r]) /\ Validate(t, r)
                THEN Accesses(t, e) /\ lock' = [lock EXCEPT ![r] = WriteLocked(lock[r])]
                ELSE Others(t) /\ pc'[t] = "undo" /\ txn' = txn /\ lock' = lock
    BY <1>4, <2>3, LockedStep
  <2>5. CASE CanWriteLock(lock[r]) /\ Validate(t, r)
    <3>1. Accesses(t, e) /\ lock' = [lock EXCEPT ![r] = WriteLocked(lock[r])]
      BY <2>4, <2>5
    <3>2. e.type = "READ_WRITE" /\ Locks(e) /\ e.record = r /\ Others(t)
      BY <2>1, <3>1 DEF Locks, Accesses
    <3>3. HeldEntries(t)' = HeldEntries(t) \cup {n}
      BY <2>1, <2>4, <3>1, <3>2, AccessesHeld
    <3> HIDE DEF e
    <3>4. ReadHeld(t)' = ReadHeld(t) /\ WriteHeld(t)' = WriteHeld(t) \cup {r}
      <4>1. txn'[t].accesses[n] = e
            /\ \A i \in HeldEntries(t) : txn'[t].accesses[i] = txn[t].accesses[i]
        BY <3>1, AccessesHeldMap
      <4>2. e.type # "READ_ONLY" /\ e.record = r
        BY <3>2
      <4> HIDE DEF n, r
      <4> QED
        BY <3>3, <4>1, <4>2, HeldAdded
    <3>5. r \notin ReadHeld(t)
      <4>1. \A i \in HeldEntries(t) : txn[t].accesses[i].type # "READ_ONLY"
        BY <2>1, HeldLocks DEF ToLock, Locks
      <4> QED
        BY <4>1 DEF ReadHeld
    <3>6. \A u \in Thread : u # t => HeldSame(u)
      BY <3>2, OthersHold
    <3>7. SnapshotConstants /\ FALSE \in BOOLEAN
      BY DEF StateInv, TypeInv
    <3> HIDE DEF r
    <3> QED
      BY <2>2, <2>5, <3>1, <3>4, <3>5, <3>6, <3>7, LockTaken
  <2>6. CASE ~(CanWriteLock(lock[r]) /\ Validate(t, r))
    <3>1. Others(t) /\ pc'[t] = "undo" /\ txn' = txn /\ lock' = lock /\ scheme' = scheme
      BY <2>4, <2>6 DEF Others
    <3>2. ToLock(t)' = ToLock(t)
      BY <3>1 DEF ToLock, Locks
    <3>3. HeldEntries(t)' = HeldEntries(t)
      BY <2>1, <2>4, <3>1, <3>2 DEF HeldEntries
    <3> QED
      BY <3>1, <3>3, UnheldStep
  <2> QED
    BY <2>5, <2>6
<1>5. ASSUME NEW t \in Thread, SelectNewest(t) PROVE LockInv'
  <2>1. Accessing(t) /\ Access(t).type # "INSERT_ONLY"
    BY <1>5 DEF SelectNewest
  <2>2. Running(t) /\ Access(t).record \in Record
    BY <2>1, Accessing1, AccessOf
  <2>3. latest[Access(t).record] \in Nat
    BY <2>2 DEF StateInv, TypeInv
  <2>4. /\ Others(t) /\ SameEntries(t) /\ pc[t] = "exec" /\ pc'[t] = "read"
        /\ scheme = "MVOCC" /\ txn'[t].locked = txn[t].locked
    BY <1>5, <2>3, NewestStep
  <2>5. HeldEntries(t)' = HeldEntries(t) /\ lock' = lock /\ txn'[t].accesses = txn[t].accesses
    BY <1>5, <2>4 DEF HeldEntries, SelectNewest, content, SameEntries
  <2> QED
    BY <2>4, <2>5, UnheldStep
<1>6. ASSUME NEW t \in Thread, ReadAccess(t) PROVE LockInv'
  <2> DEFINE e == NewEntry(t, txn[t].ts, Newest(history[Access(t).record]))
  <2>1. pc[t] = "read" /\ lock' = lock
    BY <1>6 DEF ReadAccess, content
  <2>2. Running(t) /\ Access(t).record \in Record /\ scheme = "MVOCC"
    <3>1. Running(t) /\ Len(txn[t].accesses) < Len(txn[t].procedure)
          /\ Access(t).type # "INSERT_ONLY" /\ scheme = "MVOCC"
      BY <2>1 DEF Running, StateInv, PcOf
    <3> QED
      BY <3>1, AccessOf
  <2>3. Newest(history[Access(t).record]) \in Nat
    BY <2>2, NewestIsLatest
  <2>4. Accesses(t, e)
    BY <1>6, <2>3, ReadStep
  <2> HIDE DEF e
  <2> QED
    BY <1>a, <2>1, <2>2, <2>4
<1>7. ASSUME NEW t \in Thread, CommitTransaction(t) PROVE LockInv'
  <2>1. /\ Others(t) /\ SameEntries(t) /\ pc[t] = "exec"
        /\ pc'[t] = IF scheme = "SILOCK" THEN "draw" ELSE "lock"
        /\ txn'[t].locked = IF scheme = "SILOCK" THEN ToLock(t) ELSE txn[t].locked
    BY <1>7, CommitStep
  <2>2. LoopOf(t) /\ scheme' = scheme
    BY <2>1 DEF StateInv, Others
  <2>3. HeldEntries(t)' = HeldEntries(t) /\ lock' = lock /\ txn'[t].accesses = txn[t].accesses
    BY <1>7, <2>1, <2>2 DEF HeldEntries, CommitTransaction, content, SameEntries, LoopOf
  <2> QED
    BY <2>1, <2>3, UnheldStep
<1>8. ASSUME NEW t \in Thread, AcquireLock(t) PROVE LockInv'
  <2> DEFINE i == NextLock(t)
             e == txn[t].accesses[i]
             read == e.type = "READ_ONLY"
  <2>1. /\ Others(t) /\ SameEntries(t) /\ pc[t] = "lock"
        /\ i \in ToLock(t) \ txn[t].locked /\ i \in DOMAIN txn[t].accesses
        /\ e.type \in {"READ_ONLY", "READ_WRITE"} /\ e.record \in Record
        /\ CanLock(e)
        /\ lock' = [lock EXCEPT ![e.record] =
                  IF e.type = "READ_ONLY" THEN ReadLocked(lock[e.record])
                  ELSE WriteLocked(lock[e.record])]
        /\ pc'[t] \in {"lock", "release"}
        /\ txn'[t].locked = txn[t].locked \cup {i} /\ txn'[t].done = txn[t].done
    BY <1>8, LockStep
  <2> HIDE DEF i
  <2>2. txn[t].done = {} /\ txn[t].locked \subseteq ToLock(t)
    BY <2>1 DEF StateInv, LoopOf
  <2>3. HeldEntries(t)' = HeldEntries(t) \cup {i} /\ HeldEntries(t) = txn[t].locked
        /\ txn'[t].accesses = txn[t].accesses
    BY <2>1, <2>2 DEF HeldEntries, SameEntries
  <2>4. \A u \in Thread : u # t => HeldSame(u)
    BY <2>1, OthersHold
  <2>5. e.record \notin ReadHeld(t)
    <3>1. ASSUME NEW j \in txn[t].locked, txn[t].accesses[j].record = e.record PROVE FALSE
      <4>1. j \in DOMAIN txn[t].accesses /\ j # i
        BY <2>1, <2>2, <3>1, LoopsInList
      <4> QED
        BY <2>1, <3>1, <4>1, AccessesOf
    <3> QED
      BY <2>3, <3>1 DEF ReadHeld
  <2>6. IF read
        THEN ReadHeld(t)' = ReadHeld(t) \cup {e.record} /\ WriteHeld(t)' = WriteHeld(t)
        ELSE ReadHeld(t)' = ReadHeld(t) /\ WriteHeld(t)' = WriteHeld(t) \cup {e.record}
    BY <2>3, HeldAdded
  <2>7. SnapshotConstants /\ read \in BOOLEAN
    BY DEF StateInv, TypeInv
  <2>8. IF read
        THEN /\ CanReadLock(lock[e.record])
             /\ lock' = [lock EXCEPT ![e.record] = ReadLocked(lock[e.record])]
        ELSE /\ CanWriteLock(lock[e.record])
             /\ lock' = [lock EXCEPT ![e.record] = WriteLocked(lock[e.record])]
    BY <2>1 DEF CanLock
  <2> HIDE DEF e, read
  <2> QED
    BY <2>1, <2>4, <2>5, <2>6, <2>7, <2>8, LockTaken
<1>9. ASSUME NEW t \in Thread, GetMonotoneTimestamp(t) PROVE LockInv'
  <2>1. /\ Others(t) /\ SameEntries(t) /\ pc[t] \in {"lock", "draw"}
        /\ pc'[t] = "install" /\ txn'[t].locked = txn[t].locked
    BY <1>9, DrawStep
  <2>2. HeldEntries(t)' = HeldEntries(t) /\ lock' = lock /\ txn'[t].accesses = txn[t].accesses
    BY <1>9, <2>1 DEF HeldEntries, GetMonotoneTimestamp, content, SameEntries
  <2> QED
    BY <2>1, <2>2, UnheldStep
<1>10. ASSUME NEW t \in Thread, WriteAccess(t) PROVE LockInv'
  <2>1. DoneStep(t, NextInstall(t)) /\ pc[t] = "install"
    BY <1>10, WriteStep
  <2>2. Others(t) /\ SameEntries(t) /\ pc'[t] = "install" /\ txn'[t].locked = txn[t].locked
    BY <2>1 DEF DoneStep
  <2>3. HeldEntries(t)' = HeldEntries(t) /\ lock' = lock /\ txn'[t].accesses = txn[t].accesses
    BY <1>10, <2>1, <2>2 DEF HeldEntries, WriteAccess, SameEntries
  <2> QED
    BY <2>2, <2>3, UnheldStep
<1>11. ASSUME NEW t \in Thread, EndInstall(t) PROVE LockInv'
  <2>1. /\ Others(t) /\ SameEntries(t) /\ pc[t] = "install" /\ pc'[t] = "release"
        /\ txn'[t].locked = txn[t].locked /\ txn'[t].done = {}
    BY <1>11, EndInstallStep
  <2>2. HeldEntries(t)' = HeldEntries(t) /\ lock' = lock /\ txn'[t].accesses = txn[t].accesses
    BY <1>11, <2>1 DEF HeldEntries, EndInstall, content, SameEntries
  <2> QED
    BY <2>1, <2>2, UnheldStep
<1>12. ASSUME NEW t \in Thread, ReleaseLock(t) PROVE LockInv'
  <2>1. PICK i \in txn[t].locked \ txn[t].done : GivenBack(t, i) /\ pc[t] = "release"
    BY <1>12, ReleaseStep
  <2>2. DoneStep(t, i) /\ i \in HeldEntries(t)
    BY <2>1 DEF GivenBack, HeldEntries
  <2>3. HeldEntries(t)' = HeldEntries(t) \ {i}
    BY <2>1, <2>2 DEF HeldEntries, DoneStep
  <2> QED
    BY <2>1, <2>2, <2>3, GivenBackKept
<1>13. ASSUME NEW t \in Thread, ReleaseAborted(t) PROVE LockInv'
  <2>1. PICK i \in ToLock(t) \ txn[t].done : GivenBack(t, i) /\ pc[t] = "undo"
    BY <1>13, AbortStep
  <2>2. scheme = "SILOCK"
    BY <2>1 DEF StateInv, PcOf
  <2>3. DoneStep(t, i) /\ i \in HeldEntries(t)
    BY <2>1, <2>2 DEF GivenBack, HeldEntries
  <2>4. SameEntries(t) /\ scheme' = scheme /\ pc'[t] = pc[t]
        /\ txn'[t].done = txn[t].done \cup {i}
    BY <2>3 DEF DoneStep, Others
  <2>5. ToLock(t)' = ToLock(t)
    BY <2>4, EntriesKept
  <2>6. HeldEntries(t)' = HeldEntries(t) \ {i}
    BY <2>1, <2>2, <2>4, <2>5 DEF HeldEntries
  <2> QED
    BY <2>1, <2>3, <2>6, GivenBackKept
<1>14. ASSUME NEW t \in Thread,
              SetThreadTimestamp(t) \/ CommitReadOnly(t) \/ ReturnAborted(t)
       PROVE  LockInv'
  <2>1. /\ Others(t) /\ txn'[t] = NoTxn /\ pc'[t] \in {"idle", "done"}
        /\ SetThreadTimestamp(t) => pc[t] = "release" /\ txn[t].done = txn[t].locked
        /\ CommitReadOnly(t) => pc[t] = "exec" /\ scheme = "MVOCC"
        /\ ReturnAborted(t) => \/ pc[t] = "release" /\ txn[t].done = txn[t].locked
                               \/ pc[t] = "undo" /\ txn[t].done = ToLock(t)
    BY <1>14, EndStep DEF Ends
  <2>2. LoopOf(t) /\ PcOf(t)
    BY DEF StateInv
  <2>3. HeldEntries(t) = {}
    BY <1>14, <2>1, <2>2 DEF HeldEntries, LoopOf, PcOf
  <2>4. HeldEntries(t)' = {}
    BY <2>1, NoTxnType DEF HeldEntries
  <2>5. lock' = lock
    BY <1>14 DEF SetThreadTimestamp, CommitReadOnly, ReturnAborted, content
  <2> QED
    BY <2>1, <2>3, <2>4, <2>5, UnheldStep
<1>15. CASE UNCHANGED vars
  <2>1. scheme' = scheme /\ lock' = lock /\ pc' = pc /\ txn' = txn
    BY <1>15 DEF vars, content, rest
  <2>2. ASSUME NEW t \in Thread PROVE HeldSame(t)
    <3>1. ToLock(t)' = ToLock(t)
      BY <2>1 DEF ToLock, Locks
    <3>2. HeldEntries(t)' = HeldEntries(t)
      BY <2>1, <3>1 DEF HeldEntries
    <3> QED
      BY <2>1, <3>2, HeldMap
  <2> QED
    BY <2>1, <2>2, LockFrame
<1> QED
  BY <1>1, <1>2, <1>3, <1>4, <1>5, <1>6, <1>7, <1>8, <1>9, <1>10, <1>11, <1>12,
     <1>13, <1>14, <1>15 DEF Next, Step, Joined

-----------------------------------------------------------------------------
(***************************************************************************)
(* Timestamps.  What a transaction still has to install is under its write *)
(* locks, and newer than all that has been installed there.                *)
(***************************************************************************)
PendingOf(t) ==
  IF Installing(t)
  THEN {txn[t].accesses[i].record : i \in ToInstall(t) \ txn[t].done} ELSE {}

Pending(r) == {txn[u].commitTs : u \in {v \in Thread : r \in PendingOf(v)}}

StampInv ==
  /\ \A r \in Record : latest[r] < monotone
  /\ \A c \in committed : c.ts < monotone /\ c.start < monotone
  /\ \A t \in Thread :
       /\ txn[t].start < monotone
       /\ txn[t].commitTs # 0 => threadTs[t] <= txn[t].commitTs
       /\ \A r \in PendingOf(t) : latest[r] < txn[t].commitTs

PendingInv == \A r \in Record : Versions(r) = written[r] \cup Pending(r)

BaseInv == StateInv /\ VersionInv /\ StartInv /\ LockInv

(***************************************************************************)
(* What is still to be installed is write-locked by its transaction.       *)
(***************************************************************************)
LEMMA PendingHeld ==
  ASSUME StateInv, NEW t \in Thread
  PROVE  PendingOf(t) \subseteq WriteHeld(t) /\ PendingOf(t) \subseteq Record
<1>1. ASSUME NEW i \in ToInstall(t) \ txn[t].done, Installing(t)
      PROVE  /\ txn[t].accesses[i].record \in WriteHeld(t)
             /\ txn[t].accesses[i].record \in Record
  <2>1. HeldEntries(t) = ToLock(t)
    BY <1>1 DEF StateInv, LoopOf, HeldEntries, Installing
  <2>2. i \in ToLock(t) /\ txn[t].accesses[i].type = "READ_WRITE" /\ i \in DOMAIN txn[t].accesses
    BY <1>1 DEF ToInstall, ToLock, Locks
  <2>3. txn[t].accesses[i].record \in Record
    BY <2>2, AccessesOf
  <2> QED
    BY <2>1, <2>2, <2>3 DEF WriteHeld
<1> QED
  BY <1>1 DEF PendingOf

(***************************************************************************)
(* So no other transaction holds a lock on it.                             *)
(***************************************************************************)
LEMMA PendingWriter ==
  ASSUME StateInv, LockInv, NEW r \in Record, NEW t \in Thread, NEW u \in Thread,
         r \in ReadHeld(t) \cup WriteHeld(t), r \in PendingOf(u)
  PROVE  u = t
<1>1. u \in Writers(r)
  BY PendingHeld DEF Writers
<1>2. LockOf(r)
  BY DEF LockInv
<1>3. t \in Readers(r) \cup Writers(r)
  BY DEF Readers, Writers
<1> QED
  BY <1>1, <1>2, <1>3 DEF LockOf

(***************************************************************************)
(* Most steps install nothing and draw no timestamp.                       *)
(***************************************************************************)
Mid(t) ==
  /\ Others(t)
  /\ UNCHANGED <<latest, history, written, threadTs, monotone, committed>>
  /\ txn'[t].start = txn[t].start /\ txn'[t].complete = txn[t].complete
  /\ txn'[t].commitTs = txn[t].commitTs
  /\ PendingOf(t)' = PendingOf(t) /\ (Installing(t)' => Installing(t))

MidAction(t) ==
  \/ InsertRecord(t) \/ SelectSnapshot(t) \/ SelectLocked(t) \/ SelectNewest(t)
  \/ ReadAccess(t) \/ CommitTransaction(t) \/ AcquireLock(t) \/ EndInstall(t)
  \/ ReleaseLock(t) \/ ReleaseAborted(t)

(***************************************************************************)
(* The accesses, the locks and the releases are such steps.                *)
(***************************************************************************)
LEMMA MidStep ==
  ASSUME BaseInv, NEW t \in Thread, MidAction(t) PROVE Mid(t)
<1>0. StateInv /\ VersionInv /\ StartInv
  BY DEF BaseInv
<1>00. ASSUME Running(t), HasSnapshot(t)
       PROVE  txn[t].start \in Nat /\ threadTs[t] <= txn[t].start
  BY <1>0, <1>00 DEF StateInv, TypeInv, TxnType, PcOf, StartInv
<1>a. ASSUME NEW e, Accesses(t, e), pc[t] # "install",
             UNCHANGED <<latest, history, written, threadTs, monotone, committed>>
      PROVE  Mid(t)
  <2>1. Others(t) /\ Appended(t, e) /\ pc'[t] = "exec"
    BY <1>a DEF Accesses
  <2>2. txn'[t].start = txn[t].start /\ txn'[t].complete = txn[t].complete
        /\ txn'[t].commitTs = txn[t].commitTs
    BY <2>1 DEF Appended
  <2>3. PendingOf(t)' = PendingOf(t) /\ ~Installing(t)'
    BY <1>a, <2>1 DEF PendingOf, Installing
  <2> QED
    BY <1>a, <2>1, <2>2, <2>3 DEF Mid
<1>b. ASSUME Others(t), SameEntries(t), pc[t] # "install", pc'[t] # "install",
             txn'[t].commitTs = txn[t].commitTs,
             UNCHANGED <<latest, history, written, threadTs, monotone, committed>>
      PROVE  Mid(t)
  <2>1. PendingOf(t)' = PendingOf(t) /\ ~Installing(t)'
    BY <1>b DEF PendingOf, Installing
  <2> QED
    BY <1>b, <2>1 DEF Mid, SameEntries
<1>1. CASE InsertRecord(t)
  <2>1. Accesses(t, NewEntry(t, 0, Unread)) /\ pc[t] = "exec"
    BY <1>0, <1>1, InsertStep
  <2> QED
    BY <1>a, <1>1, <2>1 DEF InsertRecord, content, rest
<1>2. CASE SelectSnapshot(t)
  <2>1. Accessing(t) /\ HasSnapshot(t) /\ Access(t).type # "INSERT_ONLY"
    BY <1>2 DEF SelectSnapshot
  <2>2. Running(t) /\ Access(t).record \in Record
    BY <1>0, <2>1, Accessing1, AccessOf
  <2>3. VersionAt(history[Access(t).record], txn[t].start) \in Nat
    BY <1>0, <1>00, <2>1, <2>2, SnapshotRead
  <2>4. /\ Accesses(t, NewEntry(t, 0, VersionAt(history[Access(t).record], txn[t].start)))
        /\ pc[t] = "exec"
    BY <1>0, <1>2, <2>3, SnapshotStep
  <2> QED
    BY <1>a, <1>2, <2>4 DEF SelectSnapshot, content, rest
<1>3. CASE SelectLocked(t)
  <2> DEFINE r == Access(t).record
  <2>1. Accessing(t) /\ Access(t).type = "READ_WRITE" /\ HasSnapshot(t)
    BY <1>3 DEF SelectLocked, HasSnapshot
  <2>2. Running(t) /\ r \in Record
    BY <1>0, <2>1, Accessing1, AccessOf
  <2>3. VersionAt(history[r], txn[t].start) \in Nat
    BY <1>0, <1>00, <2>1, <2>2, SnapshotRead
  <2>4. /\ pc[t] = "exec"
        /\ IF CanWriteLock(lock[r]) /\ Validate(t, r)
                THEN Accesses(t, NewEntry(t, 0, VersionAt(history[r], txn[t].start)))
                ELSE Others(t) /\ pc'[t] = "undo" /\ txn' = txn
    BY <1>0, <1>3, <2>3, LockedStep
  <2>5. UNCHANGED <<latest, history, written, threadTs, monotone, committed>>
    BY <1>3 DEF SelectLocked, rest
  <2> QED
    BY <1>a, <1>b, <2>4, <2>5 DEF SameEntries
<1>4. CASE SelectNewest(t)
  <2>1. Accessing(t) /\ Access(t).type # "INSERT_ONLY"
    BY <1>4 DEF SelectNewest
  <2>2. latest[Access(t).record] \in Nat
    BY <1>0, <2>1, Accessing1, AccessOf DEF StateInv, TypeInv
  <2>3. /\ Others(t) /\ SameEntries(t) /\ pc[t] = "exec" /\ pc'[t] = "read"
        /\ txn'[t].commitTs = txn[t].commitTs
    BY <1>0, <1>4, <2>2, NewestStep
  <2> QED
    BY <1>b, <1>4, <2>3 DEF SelectNewest, content, rest
<1>5. CASE ReadAccess(t)
  <2>1. pc[t] = "read"
    BY <1>5 DEF ReadAccess
  <2>2. Access(t).record \in Record
    <3>1. Running(t) /\ Len(txn[t].accesses) < Len(txn[t].procedure)
          /\ Access(t).type # "INSERT_ONLY"
      BY <1>0, <2>1 DEF Running, StateInv, PcOf
    <3> QED
      BY <1>0, <3>1, AccessOf
  <2>3. Newest(history[Access(t).record]) \in Nat
    BY <1>0, <2>2, NewestIsLatest
  <2>4. Accesses(t, NewEntry(t, txn[t].ts, Newest(history[Access(t).record])))
    BY <1>0, <1>5, <2>3, ReadStep
  <2> QED
    BY <1>a, <1>5, <2>1, <2>4 DEF ReadAccess, content, rest
<1>6. CASE CommitTransaction(t)
  <2>1. /\ Others(t) /\ SameEntries(t) /\ pc[t] = "exec" /\ pc'[t] \in {"draw", "lock"}
        /\ txn'[t].commitTs = txn[t].commitTs
    BY <1>0, <1>6, CommitStep
  <2> QED
    BY <1>b, <1>6, <2>1 DEF CommitTransaction, content, rest
<1>7. CASE AcquireLock(t)
  <2>1. /\ Others(t) /\ SameEntries(t) /\ pc[t] = "lock" /\ pc'[t] \in {"lock", "release"}
        /\ txn'[t].commitTs = txn[t].commitTs
    BY <1>0, <1>7, LockStep
  <2> QED
    BY <1>b, <1>7, <2>1 DEF AcquireLock, rest
<1>8. CASE EndInstall(t)
  <2>1. /\ Others(t) /\ SameEntries(t) /\ pc[t] = "install" /\ pc'[t] = "release"
        /\ txn[t].done = ToInstall(t) /\ txn'[t].commitTs = txn[t].commitTs
    BY <1>0, <1>8, EndInstallStep
  <2>2. PendingOf(t)' = PendingOf(t) /\ ~Installing(t)'
    BY <2>1 DEF PendingOf, Installing
  <2>3. UNCHANGED <<latest, history, written, threadTs, monotone, committed>>
    BY <1>8 DEF EndInstall, content, rest
  <2> QED
    BY <2>1, <2>2, <2>3 DEF Mid, SameEntries
<1>9. CASE ReleaseLock(t) \/ ReleaseAborted(t)
  <2>1. PICK i : GivenBack(t, i) /\ pc[t] \in {"release", "undo"}
    BY <1>0, <1>9, ReleaseStep, AbortStep
  <2>2. Others(t) /\ SameEntries(t) /\ pc' = pc /\ txn'[t].commitTs = txn[t].commitTs
    BY <2>1 DEF GivenBack, DoneStep
  <2>3. UNCHANGED <<latest, history, written, threadTs, monotone, committed>>
    BY <1>9 DEF ReleaseLock, ReleaseAborted, rest
  <2> QED
    BY <1>b, <2>1, <2>2, <2>3
<1> QED
  BY <1>1, <1>2, <1>3, <1>4, <1>5, <1>6, <1>7, <1>8, <1>9 DEF MidAction

EndAction(t) == SetThreadTimestamp(t) \/ CommitReadOnly(t) \/ ReturnAborted(t)

(***************************************************************************)
(* A step is one of these, or begins, draws, installs or ends.             *)
(***************************************************************************)
LEMMA StepKinds ==
  ASSUME BaseInv, [Next]_vars
  PROVE  \/ UNCHANGED vars
         \/ \E t \in Thread : \/ Mid(t) \/ Execute(t) \/ GetMonotoneTimestamp(t)
                              \/ WriteAccess(t) \/ EndAction(t)
BY MidStep DEF Next, Step, Joined, MidAction, EndAction

(***************************************************************************)
(* What the other threads still have to install stays.                     *)
(***************************************************************************)
LEMMA OthersPending ==
  ASSUME NEW t \in Thread, Others(t), NEW u \in Thread, u # t
  PROVE  /\ PendingOf(u)' = PendingOf(u) /\ txn'[u] = txn[u]
         /\ Installing(u)' = Installing(u)
<1>1. txn'[u] = txn[u] /\ pc'[u] = pc[u] /\ scheme' = scheme
  BY DEF Others
<1>2. ToInstall(u)' = ToInstall(u)
  BY <1>1 DEF ToInstall
<1> QED
  BY <1>1, <1>2 DEF PendingOf, Installing

-----------------------------------------------------------------------------
(***************************************************************************)
(* The next version to install is pending, and only it is no longer so     *)
(* afterwards.                                                             *)
(***************************************************************************)
LEMMA WritePending ==
  ASSUME StateInv, NEW t \in Thread, WriteAccess(t)
  PROVE  LET r == txn[t].accesses[NextInstall(t)].record
         IN  /\ r \in Record /\ r \in PendingOf(t)
             /\ PendingOf(t)' = PendingOf(t) \ {r}
             /\ Others(t) /\ txn'[t].commitTs = txn[t].commitTs
             /\ txn'[t].start = txn[t].start /\ txn'[t].complete = txn[t].complete
             /\ txn[t].commitTs > 0 /\ Installing(t) /\ Installing(t)'
             /\ latest' = [latest EXCEPT ![r] = txn[t].commitTs]
             /\ history' = [history EXCEPT ![r] =
                  CollectGarbage(<<txn[t].commitTs>> \o history[r])]
             /\ written' = [written EXCEPT ![r] = written[r] \cup {txn[t].commitTs}]
             /\ threadTs' = threadTs /\ monotone' = monotone /\ committed' = committed
<1> DEFINE i == NextInstall(t)
           r == txn[t].accesses[i].record
<1>1. /\ DoneStep(t, i) /\ pc[t] = "install"
      /\ i \in ToInstall(t) \ txn[t].done /\ r \in Record
      /\ latest' = [latest EXCEPT ![r] = txn[t].commitTs]
      /\ history' = [history EXCEPT ![r] =
           CollectGarbage(<<txn[t].commitTs>> \o history[r])]
      /\ written' = [written EXCEPT ![r] = written[r] \cup {txn[t].commitTs}]
  BY WriteStep
<1>2. threadTs' = threadTs /\ monotone' = monotone /\ committed' = committed
  BY DEF WriteAccess, rest
<1> HIDE DEF i
<1>3. /\ SameEntries(t) /\ Others(t) /\ pc'[t] = "install"
      /\ txn'[t].commitTs = txn[t].commitTs /\ txn'[t].done = txn[t].done \cup {i}
      /\ scheme' = scheme
  BY <1>1 DEF DoneStep, Others
<1>4. ToInstall(t)' = ToInstall(t)
  BY <1>3, EntriesKept
<1>5. ASSUME NEW j \in ToInstall(t), txn[t].accesses[j].record = r PROVE j = i
  <2>1. /\ j \in DOMAIN txn[t].accesses /\ i \in DOMAIN txn[t].accesses
        /\ txn[t].accesses[j].type # "INSERT_ONLY"
    BY <1>1 DEF ToInstall
  <2> QED
    BY <1>5, <2>1, AccessesOf
<1>6. PendingOf(t) = {txn[t].accesses[j].record : j \in ToInstall(t) \ txn[t].done}
  BY <1>1 DEF PendingOf, Installing
<1>7. PendingOf(t)' = {txn[t].accesses[j].record : j \in ToInstall(t) \ (txn[t].done \cup {i})}
  BY <1>3, <1>4 DEF PendingOf, Installing, SameEntries
<1>8. r \in PendingOf(t) /\ PendingOf(t)' = PendingOf(t) \ {r}
  BY <1>1, <1>5, <1>6, <1>7
<1>9. txn[t].commitTs > 0
  BY <1>1 DEF StateInv, PcOf
<1> QED
  BY <1>1, <1>2, <1>3, <1>8, <1>9 DEF i, Installing, SameEntries

(***************************************************************************)
(* The draw of the timestamp makes all the updates pending.                *)
(***************************************************************************)
LEMMA DrawPending ==
  ASSUME StateInv, NEW t \in Thread, GetMonotoneTimestamp(t)
  PROVE  /\ Others(t) /\ PendingOf(t) = {} /\ PendingOf(t)' = Wrote(t) /\ ~Installing(t)
         /\ txn'[t].start = txn[t].start /\ txn'[t].complete = txn[t].complete
         /\ txn'[t].commitTs = monotone /\ monotone' = monotone + 1
         /\ UNCHANGED <<latest, history, written, threadTs>>
         /\ Commit(t, monotone) /\ pc[t] \in {"lock", "draw"} /\ Running(t)
         /\ txn[t].locked = ToLock(t)
<1>1. /\ Others(t) /\ SameEntries(t) /\ pc[t] \in {"lock", "draw"} /\ pc'[t] = "install"
      /\ txn[t].locked = ToLock(t) /\ txn'[t].done = txn[t].done
      /\ txn'[t].commitTs = monotone /\ monotone' = monotone + 1 /\ scheme' = scheme
  BY DrawStep DEF Others
<1>2. txn[t].done = {}
  BY <1>1 DEF StateInv, LoopOf
<1>3. ToInstall(t)' = ToInstall(t)
  BY <1>1, EntriesKept
<1>4. PendingOf(t)' = Wrote(t)
  BY <1>1, <1>2, <1>3 DEF PendingOf, Installing, Wrote, SameEntries
<1> QED
  BY <1>1, <1>4 DEF GetMonotoneTimestamp, content, rest, PendingOf, Installing,
     SameEntries, Running

(***************************************************************************)
(* The first step, and the last ones.                                      *)
(***************************************************************************)
LEMMA ExecutePending ==
  ASSUME StateInv, NEW t \in Thread, Execute(t)
  PROVE  /\ Others(t) /\ PendingOf(t) = {} /\ PendingOf(t)' = {}
         /\ ~Installing(t) /\ ~Installing(t)'
         /\ UNCHANGED <<latest, history, written, threadTs, monotone, committed>>
<1>1. Others(t) /\ pc[t] = "idle" /\ pc'[t] = "exec"
  BY ExecuteStep
<1> QED
  BY <1>1 DEF PendingOf, Installing, Execute, content, rest

(***************************************************************************)
(* The end of a transaction, as far as timestamps and versions go.         *)
(***************************************************************************)
LEMMA EndPending ==
  ASSUME StateInv, NEW t \in Thread, EndAction(t)
  PROVE  /\ Others(t) /\ PendingOf(t) = {} /\ PendingOf(t)' = {}
         /\ ~Installing(t) /\ ~Installing(t)'
         /\ txn'[t] = NoTxn
         /\ UNCHANGED <<latest, history, written, monotone>>
         /\ \/ threadTs' = threadTs
            \/ threadTs' = [threadTs EXCEPT ![t] = txn[t].commitTs] /\ txn[t].commitTs # 0
         /\ \/ committed' = committed
            \/ /\ Commit(t, 0) /\ IsReadOnly(txn[t].procedure) /\ HasSnapshot(t)
               /\ pc[t] = "exec" /\ scheme = "MVOCC"
<1>1. /\ Ends(t) /\ pc[t] \in {"release", "exec", "undo"}
      /\ CommitReadOnly(t) => /\ pc[t] = "exec" /\ HasSnapshot(t)
                              /\ scheme = "MVOCC" /\ IsReadOnly(txn[t].procedure)
  BY EndStep DEF EndAction
<1>2. PendingOf(t) = {} /\ PendingOf(t)' = {} /\ ~Installing(t) /\ ~Installing(t)'
  BY <1>1 DEF PendingOf, Installing, Ends
<1>3. UNCHANGED <<latest, history, written, monotone>>
  BY DEF EndAction, SetThreadTimestamp, CommitReadOnly, ReturnAborted, content, rest
<1>4. \/ threadTs' = threadTs
      \/ threadTs' = [threadTs EXCEPT ![t] = txn[t].commitTs] /\ txn[t].commitTs # 0
  BY DEF EndAction, SetThreadTimestamp, CommitReadOnly, ReturnAborted, rest
<1>5. \/ committed' = committed
      \/ /\ Commit(t, 0) /\ IsReadOnly(txn[t].procedure) /\ HasSnapshot(t)
         /\ pc[t] = "exec" /\ scheme = "MVOCC"
  BY <1>1 DEF EndAction, SetThreadTimestamp, CommitReadOnly, ReturnAborted
<1> QED
  BY <1>1, <1>2, <1>3, <1>4, <1>5 DEF Ends

(***************************************************************************)
(* A read-only transaction has nothing to install.                         *)
(***************************************************************************)
LEMMA ReadOnlyWrote ==
  ASSUME StateInv, NEW t \in Thread, Running(t), IsReadOnly(txn[t].procedure)
  PROVE  ToInstall(t) = {} /\ Wrote(t) = {}
<1> DEFINE p == txn[t].procedure
           E == [record : Record \cup {0}, type : AccessType]
<1>1. p \in Procedures /\ IsProcedure(p) /\ Follows(txn[t])
  BY DEF StateInv, TypeInv, PcOf, SnapshotConstants
<1>2. p \in Seq(E)
  BY <1>1 DEF IsProcedure
<1>3. Len(p) \in Nat /\ DOMAIN p = 1..Len(p)
  <2> HIDE DEF E, p
  <2> QED
    BY <1>2, LenProperties
<1>4. /\ Len(txn[t].accesses) \in Nat
      /\ DOMAIN txn[t].accesses = 1..Len(txn[t].accesses)
  BY AccessesOf
<1>5. \A i \in DOMAIN txn[t].accesses : txn[t].accesses[i].type = "READ_ONLY"
  <2>1. \A i \in DOMAIN txn[t].accesses : i \in DOMAIN p
    BY <1>1, <1>3, <1>4 DEF Follows
  <2> QED
    BY <1>1, <2>1 DEF Follows, IsReadOnly
<1> QED
  BY <1>5 DEF ToInstall, Wrote

(***************************************************************************)
(* The version lists after a step.                                         *)
(***************************************************************************)
LEMMA VersionFrame ==
  ASSUME StateInv, VersionInv, UNCHANGED <<latest, history, written>>,
         \A t \in Thread : threadTs'[t] \in Nat /\ threadTs[t] <= threadTs'[t]
  PROVE  VersionInv'
<1>1. ASSUME NEW r \in Record PROVE VersionOf(r)'
  <2>1. VersionOf(r) /\ Range(history[r]) \subseteq Nat
    BY DEF VersionInv, VersionOf, StateInv, TypeInv
  <2>2. ASSUME NEW v \in written[r], v \notin Range(history[r])
        PROVE  \E w \in Range(history[r]) : v < w /\ \A t \in Thread : w <= threadTs'[t]
    <3>1. PICK w \in Range(history[r]) : v < w /\ \A t \in Thread : w <= threadTs[t]
      BY <2>1, <2>2 DEF VersionOf
    <3>2. \A t \in Thread : w <= threadTs'[t]
      <4> SUFFICES ASSUME NEW t \in Thread PROVE w <= threadTs'[t]
        OBVIOUS
      <4>1. w \in Nat /\ threadTs[t] \in Nat /\ threadTs'[t] \in Nat
            /\ w <= threadTs[t] /\ threadTs[t] <= threadTs'[t]
        BY <2>1, <3>1 DEF StateInv, TypeInv
      <4> QED
        BY <4>1
    <3> QED
      BY <3>1, <3>2
  <2> QED
    BY <2>1, <2>2 DEF VersionOf
<1> QED
  BY <1>1 DEF VersionInv

(***************************************************************************)
(* An installation keeps VersionInv: the timestamp is newer than all in    *)
(* the list, and what CollectGarbage takes is older than a version that is *)
(* left.                                                                   *)
(***************************************************************************)
LEMMA VersionWrite ==
  ASSUME StateInv, VersionInv, StampInv, NEW t \in Thread, WriteAccess(t)
  PROVE  VersionInv'
<1>0. PICK r \in Record :
        /\ r \in PendingOf(t) /\ txn[t].commitTs > 0
        /\ latest' = [latest EXCEPT ![r] = txn[t].commitTs]
        /\ history' = [history EXCEPT ![r] =
             CollectGarbage(<<txn[t].commitTs>> \o history[r])]
        /\ written' = [written EXCEPT ![r] = written[r] \cup {txn[t].commitTs}]
        /\ threadTs' = threadTs
  BY WritePending
<1> DEFINE x == txn[t].commitTs
           h == history[r]
           f == <<x>> \o h
           g == CollectGarbage(f)
<1>1. /\ r \in Record /\ r \in PendingOf(t) /\ x > 0
      /\ latest' = [latest EXCEPT ![r] = x]
      /\ history' = [history EXCEPT ![r] = g]
      /\ written' = [written EXCEPT ![r] = written[r] \cup {x}]
      /\ threadTs' = threadTs
  BY <1>0
<1>2. latest[r] < x /\ x \in Nat /\ latest[r] \in Nat
  BY <1>1 DEF StampInv, StateInv, TypeInv, TxnType
<1>3. VersionOf(r) /\ h \in Seq(Nat) /\ written[r] \subseteq Nat
  BY <1>1 DEF VersionInv, StateInv, TypeInv
<1>4. \A v \in written[r] : v \in Nat /\ v < x /\ v > 0
  BY <1>2, <1>3 DEF VersionOf
<1>5. /\ f \in Seq(Nat) /\ Descends(f) /\ f # <<>> /\ f[1] = x
      /\ Range(f) = Range(h) \cup {x}
  <2>1. Descends(h) /\ \A v \in Range(h) : v < x
    BY <1>3, <1>4 DEF VersionOf
  <2> HIDE DEF h, x
  <2> QED
    BY <1>2, <1>3, <2>1, Pushed
<1> HIDE DEF f
<1>6. /\ g \in Seq(Nat) /\ Descends(g) /\ g # <<>> /\ g[1] = x
      /\ Range(g) \subseteq Range(f)
      /\ \A v \in Range(f) :
           v \in Range(g) \/ \E w \in Range(g) : v < w /\ \A u \in Thread : w <= threadTs[u]
  <2>1. CASE g = f
    BY <1>5, <2>1
  <2>2. CASE g # f
    <3>1. g = ClearHistory(f, GetMinTimestamp)
      BY <2>2 DEF CollectGarbage
    <3>2. GetMinTimestamp \in Nat /\ \A u \in Thread : GetMinTimestamp <= threadTs[u]
      BY MinThreadTs
    <3> DEFINE m == GetMinTimestamp
    <3> HIDE DEF g, m
    <3>3. /\ g \in Seq(Nat) /\ Descends(g) /\ g # <<>> /\ g[1] = f[1]
          /\ Range(g) \subseteq Range(f)
          /\ \A v \in Range(f) : v \in Range(g) \/ \E w \in Range(g) : v < w /\ w < m
      BY <1>5, <3>1, <3>2, Cleared DEF m
    <3>4. ASSUME NEW w \in Range(g), w < m, NEW u \in Thread PROVE w <= threadTs[u]
      <4>1. w \in Nat
        <5>1. \A i \in DOMAIN g : g[i] \in Nat
          BY <3>3, LenProperties, ElementOfSeq
        <5> QED
          BY <5>1 DEF Range
      <4>2. m \in Nat /\ m <= threadTs[u] /\ threadTs[u] \in Nat
        BY <3>2 DEF m, StateInv, TypeInv
      <4> QED
        BY <3>4, <4>1, <4>2
    <3>5. ASSUME NEW v \in Range(f), v \notin Range(g)
          PROVE  \E w \in Range(g) : v < w /\ \A u \in Thread : w <= threadTs[u]
      <4>1. PICK w \in Range(g) : v < w /\ w < m
        BY <3>3, <3>5
      <4> QED
        BY <3>4, <4>1
    <3> QED
      BY <1>5, <3>3, <3>5
  <2> QED
    BY <2>1, <2>2
<1> HIDE DEF g
<1>7. ASSUME NEW q \in Record, q # r PROVE VersionOf(q)'
  <2>1. latest'[q] = latest[q] /\ history'[q] = history[q] /\ written'[q] = written[q]
    BY <1>1, <1>7 DEF StateInv, TypeInv, VersionInv
  <2> QED
    BY <1>1, <2>1 DEF VersionInv, VersionOf
<1>8. /\ latest'[r] = x /\ history'[r] = g /\ written'[r] = written[r] \cup {x}
      /\ history' \in [Record -> Seq(Nat)]
  BY <1>1, <1>6 DEF StateInv, TypeInv, VersionInv
<1>9. Range(f) \subseteq Nat /\ Range(g) \subseteq Nat
  <2>1. Range(h) \subseteq Nat
    BY <1>3 DEF VersionOf
  <2> QED
    BY <1>2, <1>5, <1>6, <2>1
<1>10. ASSUME NEW v \in written[r] \cup {x}, v \notin Range(g)
       PROVE  \E w \in Range(g) : v < w /\ \A u \in Thread : w <= threadTs[u]
  <2>1. CASE v \in Range(f)
    BY <1>6, <1>10, <2>1
  <2>2. CASE v \notin Range(f)
    <3>1. v \in written[r] /\ v \notin Range(h)
      BY <1>5, <1>10, <2>2
    <3>2. PICK w \in Range(h) : v < w /\ \A u \in Thread : w <= threadTs[u]
      BY <1>3, <3>1 DEF VersionOf
    <3>3. CASE w \in Range(g)
      BY <3>2, <3>3
    <3>4. CASE w \notin Range(g)
      <4>1. PICK z \in Range(g) : w < z /\ \A u \in Thread : z <= threadTs[u]
        BY <1>5, <1>6, <3>2, <3>4
      <4>2. v \in Nat /\ w \in Nat /\ z \in Nat
        BY <1>3, <1>5, <1>9, <3>1, <3>2, <4>1
      <4>3. v < z
        BY <3>2, <4>1, <4>2
      <4> QED
        BY <4>1, <4>3
    <3> QED
      BY <3>3, <3>4
  <2> QED
    BY <2>1, <2>2
<1>11. VersionOf(r)'
  <2>1. Range(g) \subseteq written[r] \cup {x}
    BY <1>3, <1>5, <1>6 DEF VersionOf
  <2>2. \A v \in written[r] \cup {x} : v > 0 /\ v <= x
    BY <1>1, <1>2, <1>4
  <2>3. Descends(history[r])' /\ (history[r] # <<>>)' /\ (latest[r] = history[r][1])'
    BY <1>6, <1>8 DEF Descends
  <2>4. (Range(history[r]) \subseteq written[r])'
    BY <1>8, <2>1
  <2>5. (\A v \in written[r] : v > 0 /\ v <= latest[r])'
    BY <1>8, <2>2
  <2>6. (\A v \in written[r] : \/ v \in Range(history[r])
           \/ \E w \in Range(history[r]) : v < w /\ \A u \in Thread : w <= threadTs[u])'
    BY <1>1, <1>8, <1>10
  <2> QED
    BY <2>3, <2>4, <2>5, <2>6 DEF VersionOf
<1> QED
  BY <1>7, <1>8, <1>11 DEF VersionInv

(***************************************************************************)
(* VersionInv is kept by every step.                                       *)
(***************************************************************************)
LEMMA VersionNext ==
  ASSUME BaseInv, StampInv, [Next]_vars PROVE VersionInv'
<1>0. StateInv /\ VersionInv
  BY DEF BaseInv
<1>00. threadTs \in [Thread -> Nat]
  BY <1>0 DEF StateInv, TypeInv
<1>1. ASSUME NEW t \in Thread, Mid(t) \/ Execute(t) \/ GetMonotoneTimestamp(t)
      PROVE  VersionInv'
  <2>1. UNCHANGED <<latest, history, written, threadTs>>
    BY <1>0, <1>1, ExecutePending, DrawPending DEF Mid
  <2>2. \A u \in Thread : threadTs'[u] \in Nat /\ threadTs[u] <= threadTs'[u]
    BY <1>00, <2>1
  <2> QED
    BY <1>0, <2>1, <2>2, VersionFrame
<1>2. ASSUME NEW t \in Thread, EndAction(t) PROVE VersionInv'
  <2>1. UNCHANGED <<latest, history, written>>
    BY <1>0, <1>2, EndPending
  <2>2. \/ threadTs' = threadTs
        \/ threadTs' = [threadTs EXCEPT ![t] = txn[t].commitTs] /\ txn[t].commitTs # 0
    BY <1>0, <1>2, EndPending
  <2>3. txn[t].commitTs \in Nat /\ (txn[t].commitTs # 0 => threadTs[t] <= txn[t].commitTs)
    BY <1>0 DEF StateInv, TypeInv, TxnType, StampInv
  <2>4. \A u \in Thread : threadTs'[u] \in Nat /\ threadTs[u] <= threadTs'[u]
    BY <1>00, <2>2, <2>3
  <2> QED
    BY <1>0, <2>1, <2>4, VersionFrame
<1>3. CASE UNCHANGED vars
  <2>1. UNCHANGED <<latest, history, written, threadTs>>
    BY <1>3 DEF vars, content, rest
  <2>2. \A u \in Thread : threadTs'[u] \in Nat /\ threadTs[u] <= threadTs'[u]
    BY <1>00, <2>1
  <2> QED
    BY <1>0, <2>1, <2>2, VersionFrame
<1> QED
  BY <1>0, <1>1, <1>2, <1>3, VersionWrite, StepKinds

-----------------------------------------------------------------------------
(***************************************************************************)
(* The start timestamps after a step.                                      *)
(***************************************************************************)
LEMMA ExecuteStart ==
  ASSUME StateInv, NEW t \in Thread, Execute(t)
  PROVE  /\ txn'[t].start # Unread =>
              txn'[t].start = GetMaxTimestamp
         /\ txn'[t].start < monotone /\ txn'[t].commitTs = 0
         /\ GetMaxTimestamp \in Nat /\ \A u \in Thread : threadTs[u] <= GetMaxTimestamp
<1>1. /\ txn'[t].start = (IF HasSnapshot(t)' THEN GetMaxTimestamp ELSE Unread)
      /\ txn'[t].commitTs = 0
  BY ExecuteStep
<1>2. /\ GetMaxTimestamp \in Nat /\ GetMaxTimestamp < monotone
      /\ \A u \in Thread : threadTs[u] <= GetMaxTimestamp
  BY MaxThreadTs
<1>3. Unread < monotone
  BY DEF StateInv, TypeInv, Unread
<1> QED
  BY <1>1, <1>2, <1>3

(***************************************************************************)
(* StartInv is kept: only a thread without a transaction moves its         *)
(* timestamp.                                                              *)
(***************************************************************************)
LEMMA StartNext ==
  ASSUME BaseInv, [Next]_vars PROVE StartInv'
<1>0. StateInv /\ StartInv
  BY DEF BaseInv
<1>1. ASSUME NEW t \in Thread, Mid(t) \/ GetMonotoneTimestamp(t) \/ WriteAccess(t)
      PROVE  StartInv'
  <2>1. threadTs' = threadTs /\ Others(t) /\ txn'[t].start = txn[t].start
    BY <1>0, <1>1, DrawPending, WritePending DEF Mid
  <2> QED
    BY <1>0, <2>1 DEF StartInv, Others
<1>2. ASSUME NEW t \in Thread, Execute(t) PROVE StartInv'
  <2>1. Others(t) /\ threadTs' = threadTs
    BY <1>0, <1>2, ExecutePending
  <2>2. /\ txn'[t].start # Unread => txn'[t].start = GetMaxTimestamp
        /\ \A u \in Thread : threadTs[u] <= GetMaxTimestamp
    BY <1>0, <1>2, ExecuteStart
  <2> QED
    BY <1>0, <2>1, <2>2 DEF StartInv, Others
<1>3. ASSUME NEW t \in Thread, EndAction(t) PROVE StartInv'
  <2>1. /\ Others(t) /\ txn'[t].start = Unread
        /\ \A u \in Thread : u # t => threadTs'[u] = threadTs[u]
    BY <1>0, <1>3, EndPending, NoTxnType DEF StateInv, TypeInv
  <2> QED
    BY <1>0, <2>1 DEF StartInv, Others
<1>4. CASE UNCHANGED vars
  BY <1>0, <1>4 DEF StartInv, vars, rest
<1> QED
  BY <1>1, <1>2, <1>3, <1>4, StepKinds

(***************************************************************************)
(* The timestamps after a step.                                            *)
(***************************************************************************)
StampOf(t) ==
  /\ txn[t].start < monotone
  /\ txn[t].commitTs # 0 => threadTs[t] <= txn[t].commitTs
  /\ \A r \in PendingOf(t) : latest[r] < txn[t].commitTs

(***************************************************************************)
(* StampInv is kept by every step.                                         *)
(***************************************************************************)
LEMMA StampNext ==
  ASSUME BaseInv, StampInv, [Next]_vars PROVE StampInv'
<1>0. StateInv /\ LockInv /\ StampInv
  BY DEF BaseInv
<1>a. /\ latest \in [Record -> Nat] /\ threadTs \in [Thread -> Nat] /\ monotone \in Nat
      /\ \A t \in Thread : txn[t].commitTs \in Nat /\ txn[t].start \in {Unread} \cup Nat
                           /\ StampOf(t) /\ TsOf(t)
  BY <1>0 DEF StateInv, TypeInv, TxnType, StampInv, StampOf
<1>b. ASSUME NEW t \in Thread, Others(t), latest' = latest, monotone' \in Nat,
             monotone <= monotone', \A u \in Thread : u # t => threadTs'[u] = threadTs[u],
             StampOf(t)', \A c \in committed' : c.ts < monotone' /\ c.start < monotone'
      PROVE  StampInv'
  <2>1. ASSUME NEW u \in Thread, u # t PROVE StampOf(u)'
    <3>1. PendingOf(u)' = PendingOf(u) /\ txn'[u] = txn[u]
      BY <1>b, <2>1, OthersPending
    <3>2. StampOf(u) /\ txn[u].start \in {-1} \cup Nat
      BY <1>a DEF Unread
    <3>3. txn'[u].start < monotone'
      BY <1>a, <1>b, <3>1, <3>2 DEF StampOf
    <3> QED
      BY <1>b, <2>1, <3>1, <3>2, <3>3 DEF StampOf
  <2>2. \A r \in Record : latest'[r] < monotone'
    BY <1>a, <1>b DEF StampInv
  <2> QED
    BY <1>b, <2>1, <2>2 DEF StampInv, StampOf
<1>c. \A c \in committed : c.ts < monotone /\ c.start < monotone
                           /\ c.ts \in Nat /\ c.start \in {-1} \cup Nat
  BY <1>0 DEF StampInv, StateInv, TypeInv, CommitType, Unread
<1>1. ASSUME NEW t \in Thread, Mid(t) PROVE StampInv'
  <2>1. /\ Others(t) /\ UNCHANGED <<latest, threadTs, monotone, committed>>
        /\ txn'[t].start = txn[t].start /\ txn'[t].commitTs = txn[t].commitTs
        /\ PendingOf(t)' = PendingOf(t)
    BY <1>1 DEF Mid
  <2>2. StampOf(t)'
    BY <1>a, <2>1 DEF StampOf
  <2> QED
    BY <1>a, <1>b, <1>c, <2>1, <2>2
<1>2. ASSUME NEW t \in Thread, Execute(t) PROVE StampInv'
  <2>1. /\ Others(t) /\ UNCHANGED <<latest, threadTs, monotone, committed>>
        /\ PendingOf(t)' = {}
    BY <1>0, <1>2, ExecutePending
  <2>2. txn'[t].start < monotone /\ txn'[t].commitTs = 0
    BY <1>0, <1>2, ExecuteStart
  <2>3. StampOf(t)'
    BY <2>1, <2>2 DEF StampOf
  <2> QED
    BY <1>a, <1>b, <1>c, <2>1, <2>3
<1>3. ASSUME NEW t \in Thread, EndAction(t) PROVE StampInv'
  <2>1. /\ Others(t) /\ UNCHANGED <<latest, monotone>> /\ PendingOf(t)' = {}
        /\ txn'[t].start = -1 /\ txn'[t].commitTs = 0
        /\ \A u \in Thread : u # t => threadTs'[u] = threadTs[u]
    BY <1>0, <1>3, EndPending, NoTxnType DEF StateInv, TypeInv, Unread
  <2>2. monotone > 0
    BY <1>0 DEF StateInv, TypeInv
  <2>3. StampOf(t)'
    BY <1>a, <2>1, <2>2 DEF StampOf
  <2>4. \A c \in committed' : c.ts < monotone' /\ c.start < monotone'
    <3>1. CASE committed' = committed
      BY <1>c, <2>1, <3>1
    <3>2. CASE Commit(t, 0)
      <4>1. \A c \in committed' : c \in committed \/ (c.ts = 0 /\ c.start = txn[t].start)
        BY <3>2 DEF Commit
      <4>2. txn[t].start < monotone
        BY <1>a DEF StampOf
      <4> QED
        BY <1>c, <2>1, <2>2, <4>1, <4>2
    <3> QED
      BY <1>0, <1>3, <3>1, <3>2, EndPending
  <2> QED
    BY <1>a, <1>b, <2>1, <2>3, <2>4
<1>4. ASSUME NEW t \in Thread, GetMonotoneTimestamp(t) PROVE StampInv'
  <2>1. /\ Others(t) /\ txn'[t].start = txn[t].start
        /\ txn'[t].commitTs = monotone /\ monotone' = monotone + 1
        /\ latest' = latest /\ threadTs' = threadTs
        /\ PendingOf(t)' = Wrote(t) /\ Commit(t, monotone)
    BY <1>0, <1>4, DrawPending
  <2>2. Wrote(t) \subseteq Record
    <3>1. \A i \in ToInstall(t) : txn[t].accesses[i].record \in Record
      BY <1>0, AccessesOf DEF ToInstall
    <3> QED
      BY <3>1 DEF Wrote
  <2>3. StampOf(t)'
    <3>1. threadTs[t] <= monotone /\ txn[t].start < monotone + 1
      <4>1. txn[t].start \in {-1} \cup Nat /\ txn[t].start < monotone
            /\ threadTs[t] < monotone /\ threadTs[t] \in Nat
        BY <1>a DEF StampOf, TsOf, Unread
      <4> QED
        BY <1>a, <4>1
    <3>2. \A r \in Wrote(t) : latest[r] < monotone
      BY <1>0, <2>2 DEF StampInv
    <3> QED
      BY <2>1, <3>1, <3>2 DEF StampOf
  <2>4. \A c \in committed' : c.ts < monotone' /\ c.start < monotone'
    <3>1. \A c \in committed' : c \in committed \/ (c.ts = monotone /\ c.start = txn[t].start)
      BY <2>1 DEF Commit
    <3>2. txn[t].start < monotone + 1 /\ monotone < monotone + 1
      BY <1>a, <2>1, <2>3 DEF StampOf
    <3>3. \A c \in committed : c.ts < monotone + 1 /\ c.start < monotone + 1
      <4> SUFFICES ASSUME NEW c \in committed
                   PROVE  c.ts < monotone + 1 /\ c.start < monotone + 1
        OBVIOUS
      <4> QED
        BY <1>a, <1>c
    <3> QED
      BY <2>1, <3>1, <3>2, <3>3
  <2>5. monotone' \in Nat /\ monotone <= monotone'
    BY <1>a, <2>1
  <2> QED
    BY <1>b, <2>1, <2>3, <2>4, <2>5
<1>5. ASSUME NEW t \in Thread, WriteAccess(t) PROVE StampInv'
  <2>1. PICK r \in Record :
          /\ r \in PendingOf(t) /\ PendingOf(t)' = PendingOf(t) \ {r}
          /\ Others(t) /\ txn'[t].commitTs = txn[t].commitTs
          /\ txn'[t].start = txn[t].start
          /\ latest' = [latest EXCEPT ![r] = txn[t].commitTs]
          /\ threadTs' = threadTs /\ monotone' = monotone /\ committed' = committed
    BY <1>0, <1>5, WritePending
  <2>2. \A q \in Record : latest'[q] = (IF q = r THEN txn[t].commitTs ELSE latest[q])
    BY <1>a, <2>1
  <2>3. ASSUME NEW u \in Thread, NEW q \in PendingOf(u)' PROVE q # r /\ q \in PendingOf(u)
    <3>1. CASE u = t
      BY <2>1, <2>3, <3>1
    <3>2. CASE u # t
      <4>1. q \in PendingOf(u)
        BY <2>1, <2>3, <3>2, OthersPending
      <4>2. ASSUME q = r PROVE FALSE
        <5>1. r \in ReadHeld(t) \cup WriteHeld(t)
          BY <1>0, <2>1, PendingHeld
        <5> QED
          BY <1>0, <3>2, <4>1, <4>2, <5>1, PendingWriter
      <4> QED
        BY <4>1, <4>2
    <3> QED
      BY <3>1, <3>2
  <2>4. ASSUME NEW u \in Thread PROVE StampOf(u)'
    <3>1. txn'[u].start = txn[u].start /\ txn'[u].commitTs = txn[u].commitTs
      BY <2>1 DEF Others
    <3>2. \A q \in PendingOf(u)' : latest'[q] < txn'[u].commitTs
      <4> SUFFICES ASSUME NEW q \in PendingOf(u)' PROVE latest'[q] < txn'[u].commitTs
        OBVIOUS
      <4>1. q \in PendingOf(u) /\ q # r /\ q \in Record
        BY <1>0, <2>3, PendingHeld
      <4>2. latest[q] < txn[u].commitTs
        BY <1>a, <4>1 DEF StampOf
      <4> QED
        BY <2>2, <3>1, <4>1, <4>2
    <3> QED
      BY <1>a, <2>1, <3>1, <3>2 DEF StampOf
  <2>5. \A q \in Record : latest'[q] < monotone'
    <3>1. txn[t].commitTs < monotone
      BY <1>a DEF TsOf
    <3> QED
      BY <1>0, <2>1, <2>2, <3>1 DEF StampInv
  <2> QED
    BY <1>c, <2>1, <2>4, <2>5 DEF StampInv, StampOf
<1>6. CASE UNCHANGED vars
  <2>1. /\ scheme' = scheme /\ txn' = txn /\ pc' = pc /\ latest' = latest
        /\ threadTs' = threadTs /\ monotone' = monotone /\ committed' = committed
    BY <1>6 DEF vars, content, rest
  <2>2. ASSUME NEW u \in Thread PROVE StampOf(u)'
    <3>1. PendingOf(u)' = PendingOf(u)
      BY <2>1 DEF PendingOf, Installing, ToInstall
    <3> QED
      BY <1>a, <2>1, <3>1 DEF StampOf
  <2> QED
    BY <1>0, <2>1, <2>2 DEF StampInv, StampOf
<1> QED
  BY <1>1, <1>2, <1>3, <1>4, <1>5, <1>6, StepKinds

(***************************************************************************)
(* The versions of the history are those that are installed or pending.    *)
(***************************************************************************)
LEMMA PendingSame ==
  ASSUME NEW t \in Thread, Others(t), PendingOf(t)' = PendingOf(t),
         PendingOf(t) # {} => txn'[t].commitTs = txn[t].commitTs, NEW r
  PROVE  Pending(r)' = Pending(r)
<1>1. \A u \in Thread : PendingOf(u)' = PendingOf(u)
  BY OthersPending
<1>2. \A u \in Thread : r \in PendingOf(u) => txn'[u].commitTs = txn[u].commitTs
  BY OthersPending
<1> QED
  BY <1>1, <1>2 DEF Pending

(***************************************************************************)
(* PendingInv is kept: a commit makes its updates pending, an installation *)
(* turns one of them into a version.                                       *)
(***************************************************************************)
LEMMA PendingNext ==
  ASSUME BaseInv, PendingInv, [Next]_vars PROVE PendingInv'
<1>0. StateInv /\ LockInv
  BY DEF BaseInv
<1>1. ASSUME NEW t \in Thread, Mid(t) \/ Execute(t) PROVE PendingInv'
  <2>1. /\ Others(t) /\ PendingOf(t)' = PendingOf(t) /\ written' = written
        /\ committed' = committed
        /\ PendingOf(t) # {} => txn'[t].commitTs = txn[t].commitTs
    BY <1>0, <1>1, ExecutePending DEF Mid
  <2>2. \A r \in Record : Pending(r)' = Pending(r)
    BY <2>1, PendingSame
  <2>3. \A r \in Record : Versions(r)' = Versions(r)
    BY <2>1 DEF Versions
  <2> QED
    BY <2>1, <2>2, <2>3 DEF PendingInv
<1>2. ASSUME NEW t \in Thread, EndAction(t) PROVE PendingInv'
  <2>1. /\ Others(t) /\ PendingOf(t) = {} /\ PendingOf(t)' = {} /\ written' = written
    BY <1>0, <1>2, EndPending
  <2>2. \A r \in Record : Pending(r)' = Pending(r)
    BY <2>1, PendingSame
  <2>3. ASSUME NEW r \in Record PROVE Versions(r)' = Versions(r)
    <3>1. CASE committed' = committed
      BY <3>1 DEF Versions
    <3>2. CASE committed' # committed
      <4>1. Commit(t, 0) /\ IsReadOnly(txn[t].procedure) /\ pc[t] = "exec"
        BY <1>0, <1>2, <3>2, EndPending
      <4>2. Wrote(t) = {}
        BY <1>0, <4>1, ReadOnlyWrote DEF Running
      <4>3. {d \in committed' : r \in d.wrote} = {d \in committed : r \in d.wrote}
        BY <4>1, <4>2 DEF Commit
      <4> QED
        BY <4>3 DEF Versions
    <3> QED
      BY <3>1, <3>2
  <2> QED
    BY <2>1, <2>2, <2>3 DEF PendingInv
<1>3. ASSUME NEW t \in Thread, GetMonotoneTimestamp(t) PROVE PendingInv'
  <2>1. /\ Others(t) /\ txn'[t].commitTs = monotone /\ written' = written
        /\ PendingOf(t) = {} /\ PendingOf(t)' = Wrote(t) /\ Commit(t, monotone)
    BY <1>0, <1>3, DrawPending
  <2>2. \A u \in Thread : u # t => PendingOf(u)' = PendingOf(u) /\ txn'[u] = txn[u]
    BY <2>1, OthersPending
  <2>3. ASSUME NEW r \in Record PROVE Versions(r)' = written'[r] \cup Pending(r)'
    <3>1. Pending(r)' = Pending(r) \cup (IF r \in Wrote(t) THEN {monotone} ELSE {})
      <4>1. CASE r \in Wrote(t)
        BY <2>1, <2>2, <4>1 DEF Pending
      <4>2. CASE r \notin Wrote(t)
        BY <2>1, <2>2, <4>2 DEF Pending
      <4> QED
        BY <4>1, <4>2
    <3>2. Versions(r)' = Versions(r) \cup (IF r \in Wrote(t) THEN {monotone} ELSE {})
      <4> DEFINE k == [ts |-> monotone, start |-> txn[t].start,
                       complete |-> txn[t].complete, saw |-> Saw(t), wrote |-> Wrote(t)]
      <4>1. committed' = committed \cup {k} /\ k.ts = monotone /\ k.wrote = Wrote(t)
        BY <2>1 DEF Commit
      <4> HIDE DEF k
      <4>2. Versions(r)' = {c.ts : c \in {d \in committed' : r \in d.wrote}}
        BY DEF Versions
      <4>3. CASE r \in Wrote(t)
        BY <4>1, <4>2, <4>3 DEF Versions
      <4>4. CASE r \notin Wrote(t)
        <5>1. {d \in committed' : r \in d.wrote} = {d \in committed : r \in d.wrote}
          BY <4>1, <4>4
        <5> QED
          BY <4>2, <4>4, <5>1 DEF Versions
      <4> QED
        BY <4>3, <4>4
    <3>3. Versions(r) = written[r] \cup Pending(r)
      BY DEF PendingInv
    <3> QED
      BY <2>1, <3>1, <3>2, <3>3
  <2> QED
    BY <2>3 DEF PendingInv
<1>4. ASSUME NEW t \in Thread, WriteAccess(t) PROVE PendingInv'
  <2>1. PICK r \in Record :
          /\ r \in PendingOf(t) /\ PendingOf(t)' = PendingOf(t) \ {r}
          /\ Others(t) /\ txn'[t].commitTs = txn[t].commitTs
          /\ written' = [written EXCEPT ![r] = written[r] \cup {txn[t].commitTs}]
          /\ committed' = committed
    BY <1>0, <1>4, WritePending
  <2>2. \A u \in Thread : u # t => PendingOf(u)' = PendingOf(u) /\ txn'[u] = txn[u]
    BY <2>1, OthersPending
  <2>3. \A u \in Thread : txn'[u].commitTs = txn[u].commitTs
    BY <2>1, <2>2
  <2>4. ASSUME NEW q \in Record PROVE Versions(q)' = written'[q] \cup Pending(q)'
    <3>1. Versions(q)' = written[q] \cup Pending(q)
      BY <2>1 DEF Versions, PendingInv
    <3>2. CASE q # r
      <4>1. Pending(q)' = Pending(q)
        BY <2>1, <2>2, <2>3, <3>2 DEF Pending
      <4>2. written'[q] = written[q]
        BY <1>0, <2>1, <3>2 DEF StateInv, TypeInv
      <4> QED
        BY <3>1, <4>1, <4>2
    <3>3. CASE q = r
      <4>1. written'[q] = written[q] \cup {txn[t].commitTs}
        BY <1>0, <2>1, <3>3 DEF StateInv, TypeInv
      <4>2. Pending(q) = Pending(q)' \cup {txn[t].commitTs}
        BY <2>1, <2>2, <2>3, <3>3 DEF Pending
      <4> QED
        BY <3>1, <4>1, <4>2
    <3> QED
      BY <3>2, <3>3
  <2> QED
    BY <2>4 DEF PendingInv
<1>5. CASE UNCHANGED vars
  <2>1. /\ scheme' = scheme /\ txn' = txn /\ pc' = pc /\ written' = written
        /\ committed' = committed
    BY <1>5 DEF vars, content, rest
  <2>2. \A u \in Thread : PendingOf(u)' = PendingOf(u)
    BY <2>1 DEF PendingOf, Installing, ToInstall
  <2> QED
    BY <2>1, <2>2 DEF PendingInv, Pending, Versions
<1> QED
  BY <1>1, <1>2, <1>3, <1>4, <1>5, StepKinds

-----------------------------------------------------------------------------
(***************************************************************************)
(* What a transaction has read.  A complete snapshot is what all versions  *)
(* make it; an update transaction of MVOCC has read what was the newest    *)
(* version once; and what is locked and has been validated is still the    *)
(* newest (under SIOCC: no newer than the snapshot).                       *)
(***************************************************************************)
Reads(t) ==
  {i \in DOMAIN txn[t].accesses : txn[t].accesses[i].type # "INSERT_ONLY"}

CompleteOf(t) ==
  (txn[t].complete /\ txn[t].start # Unread) =>
    /\ \A u \in Thread : Installing(u) => txn[u].commitTs > txn[t].start
    /\ \A i \in Reads(t) : txn[t].accesses[i].saw =
         NewestUpTo(Versions(txn[t].accesses[i].record), txn[t].start)

NewestOf(t) ==
  txn[t].start = Unread =>
    /\ \A i \in Reads(t) :
         /\ txn[t].accesses[i].ts <= txn[t].accesses[i].saw
         /\ txn[t].accesses[i].saw <= latest[txn[t].accesses[i].record]
    /\ pc[t] = "read" => txn[t].ts <= latest[Access(t).record]

ValidOf(t) ==
  pc[t] \in {"exec", "lock", "draw"} =>
    \A i \in HeldEntries(t) :
      IF scheme = "SIOCC" THEN txn[t].start >= latest[txn[t].accesses[i].record]
      ELSE txn[t].accesses[i].saw = latest[txn[t].accesses[i].record]

SawInv == \A t \in Thread : CompleteOf(t) /\ NewestOf(t) /\ ValidOf(t)

(***************************************************************************)
(* A version above the timestamp changes nothing.                          *)
(***************************************************************************)
LEMMA NewestGrows ==
  ASSUME NEW S, S \subseteq Nat, NEW m \in Nat, NEW ts \in Int, ts < m
  PROVE  NewestUpTo(S \cup {m}, ts) = NewestUpTo(S, ts)
<1> DEFINE x == NewestUpTo(S, ts)
<1>1. x \in Nat /\ IsNewestUpTo(x, S, ts)
  BY NewestExists
<1> HIDE DEF x
<1>2. IsNewestUpTo(x, S \cup {m}, ts)
  <2>1. \A v \in S \cup {m} : v <= ts => v <= x
    <3> SUFFICES ASSUME NEW v \in S \cup {m}, v <= ts PROVE v <= x
      OBVIOUS
    <3>1. v # m
      OBVIOUS
    <3> QED
      BY <1>1, <3>1 DEF IsNewestUpTo
  <2> QED
    BY <1>1, <2>1 DEF IsNewestUpTo
<1>3. S \cup {m} \subseteq Nat
  OBVIOUS
<1>4. NewestUpTo(S \cup {m}, ts) = x
  BY <1>1, <1>2, <1>3, NewestIs
<1> QED
  BY <1>4 DEF x

(***************************************************************************)
(* Versions are numbers.                                                   *)
(***************************************************************************)
LEMMA VersionsType ==
  ASSUME StateInv, NEW r PROVE Versions(r) \subseteq Nat
BY DEF StateInv, TypeInv, CommitType, Versions

(***************************************************************************)
(* What a step can change for the transactions of other threads.           *)
(***************************************************************************)
Grows(t) ==
  /\ Others(t)
  /\ \A r \in Record :
       /\ Versions(r)' \in {Versions(r), Versions(r) \cup {monotone}}
       /\ latest'[r] \in Nat /\ latest[r] <= latest'[r]
       /\ latest'[r] # latest[r] => r \in PendingOf(t)
  /\ Installing(t)' => \/ Installing(t) /\ txn'[t].commitTs = txn[t].commitTs
                       \/ txn'[t].commitTs = monotone

(***************************************************************************)
(* Every step is of this kind.                                             *)
(***************************************************************************)
LEMMA StepGrows ==
  ASSUME BaseInv, StampInv, NEW t \in Thread,
         Mid(t) \/ Execute(t) \/ GetMonotoneTimestamp(t) \/ WriteAccess(t) \/ EndAction(t)
  PROVE  Grows(t)
<1>0. StateInv /\ latest \in [Record -> Nat]
  BY DEF BaseInv, StateInv, TypeInv
<1>a. ASSUME NEW ts, Commit(t, ts), NEW r, Wrote(t) = {} \/ ts = monotone
      PROVE  Versions(r)' \in {Versions(r), Versions(r) \cup {monotone}}
  <2> DEFINE k == [ts |-> ts, start |-> txn[t].start,
                   complete |-> txn[t].complete, saw |-> Saw(t), wrote |-> Wrote(t)]
  <2>1. committed' = committed \cup {k} /\ k.ts = ts /\ k.wrote = Wrote(t)
    BY <1>a DEF Commit
  <2> HIDE DEF k
  <2>2. Versions(r)' = {c.ts : c \in {d \in committed' : r \in d.wrote}}
    BY DEF Versions
  <2>3. CASE r \in Wrote(t)
    <3>1. Versions(r)' = Versions(r) \cup {ts}
      BY <2>1, <2>2, <2>3 DEF Versions
    <3>2. ts = monotone
      BY <1>a, <2>3
    <3> QED
      BY <3>1, <3>2
  <2>4. CASE r \notin Wrote(t)
    <3>1. {d \in committed' : r \in d.wrote} = {d \in committed : r \in d.wrote}
      BY <2>1, <2>4
    <3> QED
      BY <2>2, <3>1 DEF Versions
  <2> QED
    BY <2>3, <2>4
<1>1. CASE Mid(t) \/ Execute(t)
  <2>1. /\ Others(t) /\ latest' = latest /\ committed' = committed
        /\ Installing(t)' => Installing(t) /\ txn'[t].commitTs = txn[t].commitTs
    BY <1>0, <1>1, ExecutePending DEF Mid
  <2>2. \A r : Versions(r)' = Versions(r)
    BY <2>1 DEF Versions
  <2> QED
    BY <1>0, <2>1, <2>2 DEF Grows
<1>2. CASE GetMonotoneTimestamp(t)
  <2>1. Others(t) /\ latest' = latest /\ Commit(t, monotone) /\ txn'[t].commitTs = monotone
    BY <1>0, <1>2, DrawPending
  <2> QED
    BY <1>0, <1>a, <2>1 DEF Grows
<1>3. CASE WriteAccess(t)
  <2>1. PICK r \in Record :
          /\ r \in PendingOf(t) /\ Others(t) /\ txn'[t].commitTs = txn[t].commitTs
          /\ Installing(t)
          /\ latest' = [latest EXCEPT ![r] = txn[t].commitTs] /\ committed' = committed
    BY <1>0, <1>3, WritePending
  <2>2. \A q : Versions(q)' = Versions(q)
    BY <2>1 DEF Versions
  <2>3. latest[r] < txn[t].commitTs /\ txn[t].commitTs \in Nat
    BY <1>0, <2>1 DEF StampInv, StateInv, TypeInv, TxnType
  <2>4. \A q \in Record : /\ latest'[q] \in Nat /\ latest[q] <= latest'[q]
                          /\ latest'[q] # latest[q] => q \in PendingOf(t)
    BY <1>0, <2>1, <2>3
  <2> QED
    BY <2>1, <2>2, <2>4 DEF Grows
<1>4. CASE EndAction(t)
  <2>1. /\ Others(t) /\ latest' = latest /\ ~Installing(t)'
        /\ \/ committed' = committed
           \/ Commit(t, 0) /\ IsReadOnly(txn[t].procedure) /\ pc[t] = "exec"
    BY <1>0, <1>4, EndPending
  <2>2. ASSUME NEW r PROVE Versions(r)' \in {Versions(r), Versions(r) \cup {monotone}}
    <3>1. CASE committed' = committed
      BY <3>1 DEF Versions
    <3>2. CASE committed' # committed
      <4>1. Commit(t, 0) /\ Wrote(t) = {}
        BY <1>0, <2>1, <3>2, ReadOnlyWrote DEF Running
      <4> QED
        BY <1>a, <4>1
    <3> QED
      BY <3>1, <3>2
  <2> QED
    BY <1>0, <2>1, <2>2 DEF Grows
<1> QED
  BY <1>1, <1>2, <1>3, <1>4

(***************************************************************************)
(* What has been said of an access stays true.                             *)
(***************************************************************************)
LEMMA SawKept ==
  ASSUME BaseInv, StampInv, SawInv, NEW t \in Thread, Grows(t), NEW v \in Thread,
         txn'[v].start = txn[v].start, txn'[v].complete = txn[v].complete
  PROVE  /\ (txn[v].complete /\ txn[v].start # Unread) =>
              /\ \A u \in Thread : Installing(u)' => txn'[u].commitTs > txn[v].start
              /\ \A i \in Reads(v), r \in Record : txn[v].accesses[i].record = r =>
                   txn[v].accesses[i].saw = NewestUpTo(Versions(r)', txn[v].start)
         /\ txn[v].start = Unread => \A i \in Reads(v) :
              /\ txn[v].accesses[i].ts <= txn[v].accesses[i].saw
              /\ txn[v].accesses[i].saw <= latest'[txn[v].accesses[i].record]
<1>1. /\ StateInv /\ CompleteOf(v) /\ NewestOf(v) /\ Others(t)
      /\ txn[v].start < monotone /\ monotone \in Nat
      /\ txn[v].start \in {-1} \cup Nat /\ latest \in [Record -> Nat]
  BY DEF BaseInv, SawInv, Grows, StampInv, StateInv, TypeInv, TxnType, Unread
<1>2. ASSUME NEW i \in Reads(v)
      PROVE  /\ txn[v].accesses[i].record \in Record
             /\ txn[v].accesses[i].saw \in Nat
  <2>1. Follows(txn[v])
    BY <1>1 DEF StateInv, PcOf
  <2> QED
    BY <1>1, <2>1, AccessesOf DEF Reads, Follows
<1>3. ASSUME txn[v].complete, txn[v].start # Unread
      PROVE  /\ \A u \in Thread : Installing(u)' => txn'[u].commitTs > txn[v].start
             /\ \A i \in Reads(v), r \in Record : txn[v].accesses[i].record = r =>
                  txn[v].accesses[i].saw = NewestUpTo(Versions(r)', txn[v].start)
  <2>1. ASSUME NEW u \in Thread, Installing(u)' PROVE txn'[u].commitTs > txn[v].start
    <3>1. CASE u # t
      <4>1. txn'[u] = txn[u] /\ Installing(u)
        BY <1>1, <2>1, <3>1, OthersPending
      <4> QED
        BY <1>1, <1>3, <4>1 DEF CompleteOf
    <3>2. CASE u = t
      <4>1. CASE Installing(t) /\ txn'[t].commitTs = txn[t].commitTs
        BY <1>1, <1>3, <3>2, <4>1 DEF CompleteOf
      <4>2. CASE txn'[t].commitTs = monotone
        BY <1>1, <3>2, <4>2
      <4> QED
        BY <2>1, <3>2, <4>1, <4>2 DEF Grows
    <3> QED
      BY <3>1, <3>2
  <2>2. ASSUME NEW i \in Reads(v), NEW r \in Record, txn[v].accesses[i].record = r
        PROVE  txn[v].accesses[i].saw = NewestUpTo(Versions(r)', txn[v].start)
    <3>1. txn[v].accesses[i].saw = NewestUpTo(Versions(r), txn[v].start)
      BY <1>1, <1>3, <2>2 DEF CompleteOf
    <3>3. Versions(r) \subseteq Nat
      BY <1>1, VersionsType
    <3>4. NewestUpTo(Versions(r) \cup {monotone}, txn[v].start) = NewestUpTo(Versions(r), txn[v].start)
      BY <1>1, <3>3, NewestGrows
    <3> QED
      BY <3>1, <3>4 DEF Grows
  <2> QED
    BY <2>1, <2>2
<1>4. ASSUME txn[v].start = Unread, NEW i \in Reads(v)
      PROVE  /\ txn[v].accesses[i].ts <= txn[v].accesses[i].saw
             /\ txn[v].accesses[i].saw <= latest'[txn[v].accesses[i].record]
  <2> DEFINE r == txn[v].accesses[i].record
  <2>1. /\ txn[v].accesses[i].ts <= txn[v].accesses[i].saw
        /\ txn[v].accesses[i].saw <= latest[r]
    BY <1>1, <1>4 DEF NewestOf
  <2>2. latest[r] <= latest'[r] /\ latest[r] \in Nat /\ latest'[r] \in Nat
    BY <1>1, <1>2 DEF Grows
  <2> HIDE DEF r
  <2>3. txn[v].accesses[i].saw <= latest'[r]
    BY <1>2, <2>1, <2>2
  <2> QED
    BY <2>1, <2>3 DEF r
<1> QED
  BY <1>3, <1>4

-----------------------------------------------------------------------------
(***************************************************************************)
(* A timestamp that is no older than the newest version finds that one.    *)
(***************************************************************************)
LEMMA NewestIsAll ==
  ASSUME StateInv, VersionInv, NEW r \in Record, NEW ts \in Int, latest[r] <= ts
  PROVE  NewestUpTo(written[r], ts) = latest[r]
<1>1. /\ latest[r] \in Nat /\ written[r] \subseteq Nat
      /\ latest[r] # 0 => latest[r] \in written[r]
      /\ \A v \in written[r] : v <= latest[r]
  BY NewestIsLatest DEF StateInv, TypeInv
<1>2. IsNewestUpTo(latest[r], written[r], ts)
  BY <1>1 DEF IsNewestUpTo
<1> QED
  BY <1>1, <1>2, NewestIs

(***************************************************************************)
(* What is not yet installed does not show at a complete snapshot.         *)
(***************************************************************************)
LEMMA CompleteRead ==
  ASSUME StateInv, PendingInv, NEW t \in Thread, CompleteOf(t),
         txn[t].complete, txn[t].start # Unread, NEW r \in Record
  PROVE  NewestUpTo(Versions(r), txn[t].start) = NewestUpTo(written[r], txn[t].start)
<1> DEFINE s == txn[t].start
<1>1. Versions(r) = written[r] \cup Pending(r)
  BY DEF PendingInv
<1>2. ASSUME NEW v \in Pending(r) PROVE ~(v <= s)
  <2>1. PICK u \in Thread : r \in PendingOf(u) /\ v = txn[u].commitTs
    BY <1>2 DEF Pending
  <2>2. Installing(u)
    BY <2>1 DEF PendingOf
  <2>3. v > s
    BY <2>1, <2>2 DEF CompleteOf
  <2>4. v \in Nat /\ s \in Nat
    BY <2>1 DEF StateInv, TypeInv, TxnType
  <2> QED
    BY <2>3, <2>4
<1> HIDE DEF s
<1>3. {v \in Versions(r) : v <= s} = {v \in written[r] : v <= s}
  BY <1>1, <1>2
<1> QED
  BY <1>3 DEF NewestUpTo, s

(***************************************************************************)
(* What is locked, another thread's step leaves as it is.                  *)
(***************************************************************************)
LEMMA HeldIn ==
  ASSUME StateInv, NEW v \in Thread, NEW i \in HeldEntries(v)
  PROVE  /\ i \in Reads(v) /\ txn[v].accesses[i].record \in Record
         /\ txn[v].accesses[i].record \in ReadHeld(v) \cup WriteHeld(v)
         /\ txn[v].accesses[i].saw \in Nat
<1>1. i \in DOMAIN txn[v].accesses /\ txn[v].accesses[i].type # "INSERT_ONLY"
  BY HeldLocks DEF ToLock, Locks
<1>2. Follows(txn[v])
  BY DEF StateInv, PcOf
<1>3. txn[v].accesses[i].record \in Record /\ txn[v].accesses[i].saw \in Nat
  BY <1>1, <1>2, AccessesOf DEF Follows
<1>4. txn[v].accesses[i].record \in ReadHeld(v) \cup WriteHeld(v)
  BY DEF ReadHeld, WriteHeld
<1> QED
  BY <1>1, <1>3, <1>4 DEF Reads

(***************************************************************************)
(* The newest version of a record that is held stays the newest.           *)
(***************************************************************************)
LEMMA HeldLatest ==
  ASSUME StateInv, LockInv, NEW t \in Thread, Grows(t), NEW v \in Thread,
         v # t \/ PendingOf(t) = {}, NEW i \in HeldEntries(v)
  PROVE  latest'[txn[v].accesses[i].record] = latest[txn[v].accesses[i].record]
<1>1. PICK r \in Record : /\ r = txn[v].accesses[i].record
                          /\ r \in ReadHeld(v) \cup WriteHeld(v)
  BY HeldIn
<1>2. ~(r \in PendingOf(t))
  BY <1>1, PendingWriter
<1> QED
  BY <1>1, <1>2 DEF Grows

(***************************************************************************)
(* The parts of the invariant in the next state, record by record.         *)
(***************************************************************************)
LEMMA CompleteIs ==
  ASSUME NEW t,
         \A i \in Reads(t)' : txn'[t].accesses[i].record \in Record,
         (txn'[t].complete /\ txn'[t].start # Unread) =>
           /\ \A u \in Thread : Installing(u)' => txn'[u].commitTs > txn'[t].start
           /\ \A i \in Reads(t)', r \in Record : txn'[t].accesses[i].record = r =>
                txn'[t].accesses[i].saw = NewestUpTo(Versions(r)', txn'[t].start)
  PROVE  CompleteOf(t)'
<1>1. ASSUME txn'[t].complete, txn'[t].start # Unread, NEW i \in Reads(t)'
      PROVE  (txn[t].accesses[i].saw =
                NewestUpTo(Versions(txn[t].accesses[i].record), txn[t].start))'
  <2>1. PICK r \in Record : r = txn'[t].accesses[i].record
    BY <1>1
  <2>2. txn'[t].accesses[i].saw = NewestUpTo(Versions(r)', txn'[t].start)
    BY <1>1, <2>1
  <2>3. Versions(txn[t].accesses[i].record)' = Versions(r)'
    BY <2>1 DEF Versions
  <2> QED
    BY <2>2, <2>3 DEF NewestUpTo, MaxOf
<1> QED
  BY <1>1 DEF CompleteOf

(***************************************************************************)
(* What has been read is a record, and a version of it.                    *)
(***************************************************************************)
LEMMA ReadsIn ==
  ASSUME StateInv, NEW v \in Thread, NEW i \in Reads(v)
  PROVE  /\ i \in DOMAIN txn[v].accesses /\ txn[v].accesses[i].record \in Record
         /\ txn[v].accesses[i].saw \in Nat
<1>1. Follows(txn[v])
  BY DEF StateInv, PcOf
<1> QED
  BY <1>1, AccessesOf DEF Reads, Follows

(***************************************************************************)
(* The transactions of other threads.                                      *)
(***************************************************************************)
LEMMA OthersSaw ==
  ASSUME BaseInv, StampInv, SawInv, NEW t \in Thread, Grows(t),
         NEW v \in Thread, v # t
  PROVE  CompleteOf(v)' /\ NewestOf(v)' /\ ValidOf(v)'
<1>1. /\ StateInv /\ LockInv /\ NewestOf(v) /\ ValidOf(v) /\ Others(t)
      /\ txn'[v] = txn[v] /\ pc'[v] = pc[v] /\ scheme' = scheme
  BY DEF BaseInv, SawInv, Grows, Others
<1>2. HeldEntries(v)' = HeldEntries(v)
  BY <1>1, OthersHold
<1>3. Reads(v)' = Reads(v) /\ Access(v)' = Access(v)
  BY <1>1 DEF Reads, Access
<1>4. CompleteOf(v)'
  BY <1>1, <1>3, SawKept, CompleteIs, ReadsIn
<1>5. NewestOf(v)'
  <2>1. ASSUME txn[v].start = Unread, pc[v] = "read"
        PROVE  txn[v].ts <= latest'[Access(v).record]
    <3>1. Running(v) /\ Len(txn[v].accesses) < Len(txn[v].procedure)
          /\ Access(v).type # "INSERT_ONLY" /\ txn[v].ts \in Nat
      BY <1>1, <2>1 DEF Running, StateInv, PcOf
    <3>2. PICK r \in Record : r = Access(v).record
      BY <1>1, <3>1, AccessOf
    <3>3. txn[v].ts <= latest[r] /\ latest[r] <= latest'[r]
      BY <1>1, <2>1, <3>2 DEF NewestOf, Grows
    <3>4. latest[r] \in Nat /\ latest'[r] \in Nat
      BY <1>1, <3>2 DEF Grows, StateInv, TypeInv
    <3> QED
      BY <3>1, <3>2, <3>3, <3>4
  <2>2. ASSUME txn[v].start = Unread, NEW i \in Reads(v)
        PROVE  /\ txn[v].accesses[i].ts <= txn[v].accesses[i].saw
               /\ txn[v].accesses[i].saw <= latest'[txn[v].accesses[i].record]
    BY <1>1, <2>2, SawKept
  <2> QED
    BY <1>1, <1>3, <2>1, <2>2 DEF NewestOf
<1>6. ValidOf(v)'
  <2>1. \A i \in HeldEntries(v) :
          latest'[txn[v].accesses[i].record] = latest[txn[v].accesses[i].record]
    BY <1>1, HeldLatest
  <2> QED
    BY <1>1, <1>2, <2>1 DEF ValidOf
<1> QED
  BY <1>4, <1>5, <1>6

-----------------------------------------------------------------------------
(***************************************************************************)
(* A step that leaves the access list as it is.                            *)
(***************************************************************************)
LEMMA OwnSame ==
  ASSUME BaseInv, StampInv, SawInv, NEW t \in Thread, Grows(t), SameEntries(t),
         pc'[t] = "read" => txn'[t].ts <= latest'[Access(t).record]
  PROVE  CompleteOf(t)' /\ NewestOf(t)'
<1>1. StateInv /\ scheme' = scheme /\ Reads(t)' = Reads(t)
      /\ txn'[t].start = txn[t].start /\ txn'[t].complete = txn[t].complete
      /\ txn'[t].accesses = txn[t].accesses
  BY DEF BaseInv, Grows, Others, SameEntries, Reads
<1>2. Access(t)' = Access(t)
  BY <1>1, EntriesKept
<1>3. CompleteOf(t)'
  BY <1>1, SawKept, CompleteIs, ReadsIn
<1>4. NewestOf(t)'
  <2>1. ASSUME txn[t].start = Unread, NEW i \in Reads(t)
        PROVE  /\ txn[t].accesses[i].ts <= txn[t].accesses[i].saw
               /\ txn[t].accesses[i].saw <= latest'[txn[t].accesses[i].record]
    BY <1>1, <2>1, SawKept
  <2> QED
    BY <1>1, <1>2, <2>1 DEF NewestOf
<1> QED
  BY <1>3, <1>4

(***************************************************************************)
(* A step that adds an access.                                             *)
(***************************************************************************)
LEMMA AccessesSaw ==
  ASSUME BaseInv, StampInv, SawInv, NEW t \in Thread, NEW e, Accesses(t, e),
         Grows(t), pc[t] \in {"exec", "read"}, latest' = latest, committed' = committed,
         (e.type # "INSERT_ONLY" /\ txn[t].complete /\ txn[t].start # Unread) =>
           e.saw = NewestUpTo(Versions(e.record), txn[t].start),
         (e.type # "INSERT_ONLY" /\ txn[t].start = Unread) =>
           e.ts <= e.saw /\ e.saw <= latest[e.record],
         (scheme = "SILOCK" /\ Locks(e)) => e.saw = latest[e.record]
  PROVE  CompleteOf(t)' /\ NewestOf(t)' /\ ValidOf(t)'
<1> DEFINE n == Len(txn[t].accesses) + 1
<1>1. /\ StateInv /\ CompleteOf(t) /\ NewestOf(t) /\ ValidOf(t) /\ Others(t)
      /\ Appended(t, e) /\ scheme' = scheme /\ pc'[t] = "exec"
  BY DEF BaseInv, SawInv, Accesses, Others
<1>2. /\ txn'[t].start = txn[t].start /\ txn'[t].complete = txn[t].complete
      /\ DOMAIN txn'[t].accesses = DOMAIN txn[t].accesses \cup {n}
      /\ n \notin DOMAIN txn[t].accesses /\ txn'[t].accesses[n] = e
      /\ \A i \in DOMAIN txn[t].accesses : txn'[t].accesses[i] = txn[t].accesses[i]
      /\ e.type # "INSERT_ONLY" => e.record \in Record
  BY <1>1 DEF Appended
<1>h. IF scheme = "SILOCK" /\ Locks(e)
      THEN HeldEntries(t)' = HeldEntries(t) \cup {n} ELSE HeldEntries(t)' = HeldEntries(t)
  BY <1>1, AccessesHeld
<1> HIDE DEF n
<1>3. \A i \in Reads(t)' : \/ i = n /\ e.type # "INSERT_ONLY"
                           \/ i \in Reads(t) /\ i # n
                              /\ txn'[t].accesses[i] = txn[t].accesses[i]
  BY <1>2 DEF Reads
<1>4. \A r : Versions(r)' = Versions(r)
  BY DEF Versions
<1>5. CompleteOf(t)'
  <2>1. \A i \in Reads(t)' : txn'[t].accesses[i].record \in Record
    BY <1>1, <1>2, <1>3, ReadsIn
  <2>2. ASSUME txn'[t].complete, txn'[t].start # Unread
        PROVE  /\ \A u \in Thread : Installing(u)' => txn'[u].commitTs > txn'[t].start
               /\ \A i \in Reads(t)', r \in Record : txn'[t].accesses[i].record = r =>
                    txn'[t].accesses[i].saw = NewestUpTo(Versions(r)', txn'[t].start)
    <3>1. /\ \A u \in Thread : Installing(u)' => txn'[u].commitTs > txn[t].start
          /\ \A i \in Reads(t), r \in Record : txn[t].accesses[i].record = r =>
               txn[t].accesses[i].saw = NewestUpTo(Versions(r)', txn[t].start)
      BY <1>2, <2>2, SawKept
    <3>2. ASSUME NEW i \in Reads(t)', NEW r \in Record, txn'[t].accesses[i].record = r
          PROVE  txn'[t].accesses[i].saw = NewestUpTo(Versions(r)', txn'[t].start)
      <4>1. CASE i = n /\ e.type # "INSERT_ONLY"
        BY <1>2, <1>4, <2>2, <3>2, <4>1
      <4>2. CASE i \in Reads(t) /\ txn'[t].accesses[i] = txn[t].accesses[i]
        BY <1>2, <3>1, <3>2, <4>2
      <4> QED
        BY <1>3, <4>1, <4>2
    <3> QED
      BY <1>2, <3>1, <3>2
  <2> QED
    BY <2>1, <2>2, CompleteIs
<1>6. NewestOf(t)'
  <2>1. ASSUME txn[t].start = Unread, NEW i \in Reads(t)'
        PROVE  /\ txn'[t].accesses[i].ts <= txn'[t].accesses[i].saw
               /\ txn'[t].accesses[i].saw <= latest'[txn'[t].accesses[i].record]
    <3>1. CASE i = n /\ e.type # "INSERT_ONLY"
      BY <1>2, <2>1, <3>1
    <3>2. CASE i \in Reads(t) /\ txn'[t].accesses[i] = txn[t].accesses[i]
      BY <1>1, <2>1, <3>2 DEF NewestOf
    <3> QED
      BY <1>3, <3>1, <3>2
  <2> QED
    BY <1>1, <1>2, <2>1 DEF NewestOf
<1>7. ValidOf(t)'
  <2>1. HeldEntries(t) = {} \/ pc[t] = "exec"
    BY <1>1 DEF HeldEntries, StateInv, LoopOf
  <2>2. ASSUME NEW i \in HeldEntries(t)
        PROVE  IF scheme = "SIOCC" THEN txn[t].start >= latest[txn'[t].accesses[i].record]
               ELSE txn'[t].accesses[i].saw = latest[txn'[t].accesses[i].record]
    <3>1. pc[t] = "exec" /\ i \in DOMAIN txn[t].accesses
      BY <1>1, <2>1, <2>2, HeldLocks
    <3> QED
      BY <1>1, <1>2, <3>1 DEF ValidOf
  <2>3. CASE scheme = "SILOCK" /\ Locks(e)
    BY <1>1, <1>2, <1>h, <2>2, <2>3 DEF ValidOf
  <2>4. CASE ~(scheme = "SILOCK" /\ Locks(e))
    BY <1>1, <1>2, <1>h, <2>2, <2>4 DEF ValidOf
  <2> QED
    BY <2>3, <2>4
<1> QED
  BY <1>5, <1>6, <1>7

(***************************************************************************)
(* The accesses.                                                           *)
(***************************************************************************)
LEMMA InsertSaw ==
  ASSUME BaseInv, StampInv, SawInv, NEW t \in Thread, InsertRecord(t)
  PROVE  CompleteOf(t)' /\ NewestOf(t)' /\ ValidOf(t)'
<1> DEFINE e == NewEntry(t, 0, Unread)
<1>1. StateInv /\ Grows(t)
  BY MidStep, StepGrows DEF BaseInv, MidAction
<1>2. Accesses(t, e) /\ pc[t] = "exec" /\ latest' = latest /\ committed' = committed
  BY <1>1, InsertStep DEF InsertRecord, content
<1>3. e.type = "INSERT_ONLY"
  BY DEF NewEntry, InsertRecord
<1> HIDE DEF e
<1>4. ~Locks(e)
  BY <1>3 DEF Locks
<1> QED
  BY <1>1, <1>2, <1>3, <1>4, AccessesSaw

(***************************************************************************)
(* SelectSnapshot and SelectLocked read what the snapshot makes of all     *)
(* versions; what SelectLocked locks is the newest version.                *)
(***************************************************************************)
LEMMA SnapshotSaw ==
  ASSUME BaseInv, StampInv, PendingInv, SawInv, NEW t \in Thread,
         SelectSnapshot(t) \/ SelectLocked(t)
  PROVE  CompleteOf(t)' /\ NewestOf(t)' /\ ValidOf(t)'
<1>1. /\ StateInv /\ VersionInv /\ StartInv /\ Grows(t) /\ CompleteOf(t)
  BY MidStep, StepGrows DEF BaseInv, MidAction, SawInv
<1>2. /\ Accessing(t) /\ HasSnapshot(t) /\ Access(t).type # "INSERT_ONLY"
      /\ latest' = latest /\ committed' = committed
  BY DEF SelectSnapshot, SelectLocked, content, HasSnapshot
<1>3. Running(t) /\ Access(t).record \in Record /\ pc[t] = "exec"
  BY <1>1, <1>2, Accessing1, AccessOf
<1>4. /\ txn[t].start # Unread /\ txn[t].start \in Nat /\ threadTs[t] <= txn[t].start
  BY <1>1, <1>2, <1>3 DEF StateInv, TypeInv, TxnType, PcOf, StartInv
<1>5. PICK r \in Record : r = Access(t).record
  BY <1>3
<1> DEFINE x == VersionAt(history[r], txn[t].start)
           e == NewEntry(t, 0, x)
<1>6. x \in Nat /\ x = NewestUpTo(written[r], txn[t].start)
  BY <1>1, <1>4, SnapshotRead
<1>7. txn[t].complete => x = NewestUpTo(Versions(r), txn[t].start)
  BY <1>1, <1>4, <1>6, CompleteRead
<1>8. e.saw = x /\ e.record = r /\ e.type = Access(t).type
  BY <1>5 DEF NewEntry
<1>9. CASE SelectSnapshot(t)
  <2>1. Accesses(t, e) /\ (Access(t).type = "READ_WRITE" => scheme = "SIOCC")
    BY <1>1, <1>5, <1>6, <1>9, SnapshotStep
  <2> HIDE DEF e, x
  <2>2. ~(scheme = "SILOCK" /\ Locks(e))
    BY <1>8, <2>1 DEF Locks
  <2> QED
    BY <1>1, <1>2, <1>3, <1>4, <1>7, <1>8, <2>1, <2>2, AccessesSaw
<1>10. CASE SelectLocked(t)
  <2>1. /\ scheme = "SILOCK"
        /\ IF CanWriteLock(lock[r]) /\ Validate(t, r)
           THEN Accesses(t, e)
           ELSE Others(t) /\ pc'[t] = "undo" /\ txn' = txn
    BY <1>1, <1>5, <1>6, <1>10, LockedStep
  <2> HIDE DEF e
  <2>2. CASE CanWriteLock(lock[r]) /\ Validate(t, r)
    <3>1. latest[r] <= txn[t].start
      BY <1>1, <1>4, <2>2 DEF Validate, StateInv, TypeInv
    <3>2. x = latest[r]
      BY <1>1, <1>4, <1>6, <3>1, NewestIsAll
    <3> HIDE DEF x
    <3> QED
      BY <1>1, <1>2, <1>3, <1>4, <1>7, <1>8, <2>1, <2>2, <3>2, AccessesSaw
  <2>3. CASE ~(CanWriteLock(lock[r]) /\ Validate(t, r))
    <3>1. SameEntries(t) /\ pc'[t] = "undo"
      BY <2>1, <2>3 DEF SameEntries
    <3>2. ValidOf(t)'
      BY <3>1 DEF ValidOf
    <3> QED
      BY <1>1, <3>1, <3>2, OwnSame
  <2> QED
    BY <2>2, <2>3
<1> QED
  BY <1>9, <1>10

(***************************************************************************)
(* SelectNewest and ReadAccess read a version no older than the timestamp. *)
(***************************************************************************)
LEMMA NewestSaw ==
  ASSUME BaseInv, StampInv, SawInv, NEW t \in Thread, SelectNewest(t) \/ ReadAccess(t)
  PROVE  CompleteOf(t)' /\ NewestOf(t)' /\ ValidOf(t)'
<1>1. /\ StateInv /\ VersionInv /\ Grows(t) /\ NewestOf(t) /\ PcOf(t)
      /\ latest \in [Record -> Nat]
  BY MidStep, StepGrows DEF BaseInv, MidAction, SawInv, StateInv, TypeInv
<1>2. latest' = latest /\ committed' = committed
  BY DEF SelectNewest, ReadAccess, content
<1>3. CASE SelectNewest(t)
  <2>1. Accessing(t) /\ Access(t).type # "INSERT_ONLY"
    BY <1>3 DEF SelectNewest
  <2>2. Access(t).record \in Record
    BY <1>1, <2>1, Accessing1, AccessOf
  <2>3. SameEntries(t) /\ pc'[t] = "read" /\ txn'[t].ts = latest[Access(t).record]
    BY <1>1, <1>3, <2>2, NewestStep
  <2>4. txn'[t].ts <= latest'[Access(t).record]
    <3>1. PICK n \in Nat : n = latest[Access(t).record]
      BY <1>1, <2>2
    <3> QED
      BY <1>2, <2>3, <3>1
  <2>5. ValidOf(t)'
    BY <2>3 DEF ValidOf
  <2> QED
    BY <1>1, <2>3, <2>4, <2>5, OwnSame
<1>4. CASE ReadAccess(t)
  <2>1. pc[t] = "read"
    BY <1>4 DEF ReadAccess
  <2>2. /\ Running(t) /\ Len(txn[t].accesses) < Len(txn[t].procedure)
        /\ Access(t).type # "INSERT_ONLY" /\ scheme = "MVOCC" /\ ~HasSnapshot(t)
    BY <1>1, <2>1 DEF Running, PcOf
  <2>3. PICK r \in Record : r = Access(t).record
    BY <1>1, <2>2, AccessOf
  <2>4. Newest(history[r]) = latest[r] /\ latest[r] \in Nat
    BY <1>1, NewestIsLatest
  <2> DEFINE e == NewEntry(t, txn[t].ts, Newest(history[r]))
  <2>5. Accesses(t, e)
    BY <1>1, <1>4, <2>3, <2>4, ReadStep
  <2>6. e.ts = txn[t].ts /\ e.saw = latest[r] /\ e.record = r
    BY <2>3, <2>4 DEF NewEntry
  <2> HIDE DEF e
  <2>7. txn[t].start = Unread /\ txn[t].ts <= latest[r]
    BY <1>1, <2>1, <2>2, <2>3 DEF NewestOf, PcOf
  <2>8. e.saw <= latest[e.record]
    BY <2>4, <2>6
  <2> QED
    BY <1>1, <1>2, <2>1, <2>2, <2>5, <2>6, <2>7, <2>8, AccessesSaw
<1> QED
  BY <1>3, <1>4

-----------------------------------------------------------------------------
(***************************************************************************)
(* The commit and its locks.                                               *)
(***************************************************************************)
LEMMA CommitSaw ==
  ASSUME BaseInv, StampInv, SawInv, NEW t \in Thread, CommitTransaction(t)
  PROVE  CompleteOf(t)' /\ NewestOf(t)' /\ ValidOf(t)'
<1>1. StateInv /\ Grows(t) /\ ValidOf(t)
  BY MidStep, StepGrows DEF BaseInv, MidAction, SawInv
<1>2. /\ Others(t) /\ SameEntries(t) /\ pc[t] = "exec" /\ scheme' = scheme
      /\ pc'[t] = IF scheme = "SILOCK" THEN "draw" ELSE "lock"
      /\ txn'[t].locked = IF scheme = "SILOCK" THEN ToLock(t) ELSE txn[t].locked
      /\ latest' = latest /\ txn[t].done = {}
  BY <1>1, CommitStep DEF CommitTransaction, content, rest, StateInv, LoopOf
<1>3. HeldEntries(t)' = HeldEntries(t)
  BY <1>2 DEF HeldEntries
<1>4. ValidOf(t)'
  BY <1>1, <1>2, <1>3 DEF ValidOf, SameEntries
<1> QED
  BY <1>1, <1>2, <1>4, OwnSame

(***************************************************************************)
(* AcquireLock goes on only with what is the newest version still.         *)
(***************************************************************************)
LEMMA LockSaw ==
  ASSUME BaseInv, StampInv, SawInv, NEW t \in Thread, AcquireLock(t)
  PROVE  CompleteOf(t)' /\ NewestOf(t)' /\ ValidOf(t)'
<1>1. /\ StateInv /\ Grows(t) /\ NewestOf(t) /\ ValidOf(t) /\ PcOf(t)
      /\ latest \in [Record -> Nat]
  BY MidStep, StepGrows DEF BaseInv, MidAction, SawInv, StateInv, TypeInv
<1> DEFINE i == NextLock(t)
           e == txn[t].accesses[i]
<1>2. /\ Others(t) /\ SameEntries(t) /\ pc[t] = "lock" /\ scheme' = scheme
      /\ i \in DOMAIN txn[t].accesses /\ e.type \in {"READ_ONLY", "READ_WRITE"}
      /\ e.record \in Record /\ txn'[t].locked = txn[t].locked \cup {i}
      /\ pc'[t] = IF Valid(t, e) THEN "lock" ELSE "release"
      /\ latest' = latest
  BY <1>1, LockStep DEF AcquireLock, rest
<1> HIDE DEF i
<1>3. CASE ~Valid(t, e)
  <2>1. ValidOf(t)' /\ pc'[t] = "release"
    BY <1>2, <1>3 DEF ValidOf
  <2> QED
    BY <1>1, <1>2, <2>1, OwnSame
<1>4. CASE Valid(t, e)
  <2>1. pc'[t] = "lock" /\ HeldEntries(t) = txn[t].locked
        /\ HeldEntries(t)' = txn[t].locked \cup {i}
    BY <1>2, <1>4 DEF HeldEntries
  <2>2. IF scheme = "SIOCC" THEN txn[t].start >= latest[e.record]
        ELSE e.saw = latest[e.record]
    <3>1. CASE scheme = "SIOCC"
      BY <1>4, <3>1 DEF Valid, Validate
    <3>2. CASE scheme # "SIOCC"
      <4>1. scheme = "MVOCC" /\ Running(t)
        BY <1>1, <1>2, <3>2 DEF PcOf, Running, StateInv, TypeInv, SnapshotConstants
      <4>2. txn[t].start = Unread
        BY <1>1, <1>2, <4>1 DEF PcOf
      <4>3. i \in Reads(t)
        BY <1>2 DEF Reads
      <4>4. e.ts <= e.saw /\ e.saw <= latest[e.record] /\ latest[e.record] = e.ts
        BY <1>1, <1>4, <3>2, <4>2, <4>3 DEF NewestOf, Valid
      <4>5. e.saw \in Nat /\ latest[e.record] \in Nat
        BY <1>1, <1>2, <4>3, ReadsIn
      <4> HIDE DEF e
      <4>6. \A x, y \in Nat : y <= x /\ x <= y => x = y
        OBVIOUS
      <4>7. latest[e.record] <= e.saw
        BY <4>4
      <4> QED
        BY <3>2, <4>4, <4>5, <4>6, <4>7
    <3> QED
      BY <3>1, <3>2
  <2>3. ValidOf(t)'
    BY <1>1, <1>2, <2>1, <2>2 DEF ValidOf, SameEntries
  <2> QED
    BY <1>1, <1>2, <2>1, <2>3, OwnSame
<1> QED
  BY <1>3, <1>4

(***************************************************************************)
(* From the commit timestamp on there is nothing left to validate.         *)
(***************************************************************************)
LEMMA LateSaw ==
  ASSUME BaseInv, StampInv, SawInv, NEW t \in Thread,
         \/ GetMonotoneTimestamp(t) \/ WriteAccess(t) \/ EndInstall(t)
         \/ ReleaseLock(t) \/ ReleaseAborted(t)
  PROVE  CompleteOf(t)' /\ NewestOf(t)' /\ ValidOf(t)'
<1>1. StateInv /\ Grows(t)
  BY MidStep, StepGrows DEF BaseInv, MidAction
<1>2. SameEntries(t) /\ pc'[t] \in {"install", "release", "undo"}
  <2>1. CASE GetMonotoneTimestamp(t)
    BY <1>1, <2>1, DrawStep
  <2>2. CASE WriteAccess(t)
    BY <1>1, <2>2, WriteStep DEF DoneStep
  <2>3. CASE EndInstall(t)
    BY <1>1, <2>3, EndInstallStep
  <2>4. CASE ReleaseLock(t) \/ ReleaseAborted(t)
    BY <1>1, <2>4, ReleaseStep, AbortStep DEF GivenBack, DoneStep
  <2> QED
    BY <2>1, <2>2, <2>3, <2>4
<1>3. ValidOf(t)'
  BY <1>2 DEF ValidOf
<1> QED
  BY <1>1, <1>2, <1>3, OwnSame

(***************************************************************************)
(* The begin and the end.                                                  *)
(***************************************************************************)
LEMMA EmptySaw ==
  ASSUME NEW t, txn[t] = NoTxn, pc[t] \in {"idle", "done"}
  PROVE  CompleteOf(t) /\ NewestOf(t) /\ ValidOf(t)
<1>1. Reads(t) = {} /\ txn[t].start = Unread
  BY NoTxnType DEF Reads
<1> QED
  BY <1>1 DEF CompleteOf, NewestOf, ValidOf

(***************************************************************************)
(* A transaction that has ended leaves nothing to be said of.              *)
(***************************************************************************)
LEMMA EndSaw ==
  ASSUME BaseInv, NEW t \in Thread, EndAction(t)
  PROVE  CompleteOf(t)' /\ NewestOf(t)' /\ ValidOf(t)'
<1>1. txn'[t] = NoTxn /\ pc'[t] \in {"idle", "done"}
  BY EndStep DEF BaseInv, EndAction, Ends
<1>2. Reads(t)' = {} /\ txn'[t].start = Unread
  BY <1>1, NoTxnType DEF Reads
<1> QED
  BY <1>1, <1>2 DEF CompleteOf, NewestOf, ValidOf

(***************************************************************************)
(* One that begins has read nothing yet, and a complete snapshot is one    *)
(* that no installing transaction is below.                                *)
(***************************************************************************)
LEMMA ExecuteSaw ==
  ASSUME BaseInv, NEW t \in Thread, Execute(t)
  PROVE  CompleteOf(t)' /\ NewestOf(t)' /\ ValidOf(t)'
<1>1. /\ StateInv /\ Others(t) /\ pc'[t] = "exec" /\ txn'[t].locked = {}
      /\ txn'[t].done = {} /\ DOMAIN txn'[t].accesses = {} /\ ~Installing(t)'
  BY ExecuteStep DEF BaseInv, Installing
<1>2. /\ txn'[t].start # Unread => txn'[t].start = GetMaxTimestamp
      /\ txn'[t].complete <=> \A u \in Thread : Installing(u) =>
                                txn[u].commitTs > GetMaxTimestamp
  BY <1>1, ExecuteStep
<1>3. Reads(t)' = {} /\ HeldEntries(t)' = {}
  BY <1>1 DEF Reads, HeldEntries, ToLock
<1>4. CompleteOf(t)'
  <2>1. ASSUME txn'[t].complete, txn'[t].start # Unread, NEW u \in Thread, Installing(u)'
        PROVE  txn'[u].commitTs > txn'[t].start
    <3>1. u # t /\ Installing(u) /\ txn'[u] = txn[u]
      BY <1>1, <2>1, OthersPending
    <3> QED
      BY <1>2, <2>1, <3>1
  <2> QED
    BY <1>3, <2>1 DEF CompleteOf
<1>5. NewestOf(t)' /\ ValidOf(t)'
  BY <1>1, <1>3 DEF NewestOf, ValidOf
<1> QED
  BY <1>4, <1>5

(***************************************************************************)
(* SawInv at the start.                                                    *)
(***************************************************************************)
LEMMA SawInit == ASSUME Init PROVE SawInv
BY EmptySaw DEF Init, SawInv

(***************************************************************************)
(* SawInv is kept by every step.                                           *)
(***************************************************************************)
LEMMA SawNext ==
  ASSUME BaseInv, StampInv, PendingInv, SawInv, [Next]_vars PROVE SawInv'
<1>1. CASE UNCHANGED vars
  <2>1. ASSUME NEW t \in Thread PROVE CompleteOf(t)' /\ NewestOf(t)' /\ ValidOf(t)'
    <3>1. CompleteOf(t) /\ NewestOf(t) /\ ValidOf(t)
      BY DEF SawInv
    <3> USE <1>1 DEF vars, content, rest
    <3>2. CompleteOf(t)'
      BY <3>1 DEF CompleteOf, Reads, Installing, Versions
    <3>3. NewestOf(t)'
      BY <3>1 DEF NewestOf, Reads, Access
    <3>4. ValidOf(t)'
      BY <3>1 DEF ValidOf, HeldEntries, ToLock, Locks
    <3> QED
      BY <3>2, <3>3, <3>4
  <2> QED
    BY <2>1 DEF SawInv
<1>2. CASE \E t \in Thread : Step(t)
  <2>1. PICK t \in Thread : Step(t)
    BY <1>2
  <2>2. Grows(t)
    BY <2>1, StepGrows, MidStep DEF Step, MidAction, EndAction
  <2>3. CompleteOf(t)' /\ NewestOf(t)' /\ ValidOf(t)'
    BY <2>1, InsertSaw, SnapshotSaw, NewestSaw, CommitSaw, LockSaw, LateSaw, EndSaw,
       ExecuteSaw DEF Step, EndAction
  <2>4. \A v \in Thread : v # t => CompleteOf(v)' /\ NewestOf(v)' /\ ValidOf(v)'
    BY <2>2, OthersSaw
  <2> QED
    BY <2>3, <2>4 DEF SawInv
<1> QED
  BY <1>1, <1>2 DEF Next, Joined

-----------------------------------------------------------------------------
(***************************************************************************)
(* The history.  What a committed transaction has read never changes: all  *)
(* later versions are newer than its timestamps.                           *)
(***************************************************************************)
CommitOf(c) ==
  /\ (c.start # Unread /\ c.complete) =>
       \A x \in c.saw : x[2] = NewestUpTo(Versions(x[1]), c.start)
  /\ (scheme = "SIOCC" => c.complete) => Overwrites(c)
  /\ (scheme = "MVOCC" /\ c.start = Unread) =>
       \A x \in c.saw : x[2] = NewestUpTo(Versions(x[1]), c.ts - 1)

HistoryInv == \A c \in committed : CommitOf(c)

(***************************************************************************)
(* What is said of a committed transaction stays true.                     *)
(***************************************************************************)
LEMMA OldCommit ==
  ASSUME BaseInv, StampInv, HistoryInv, NEW t \in Thread, Grows(t), NEW c \in committed
  PROVE  CommitOf(c)'
<1>1. /\ CommitOf(c) /\ scheme' = scheme /\ c \in CommitType /\ StateInv
      /\ c.ts < monotone /\ c.start < monotone /\ monotone \in Nat
  BY DEF BaseInv, StampInv, HistoryInv, Grows, Others, StateInv, TypeInv
<1>2. /\ c.start \in Int /\ c.ts - 1 \in Int /\ c.ts - 1 < monotone
      /\ \A x \in c.saw : x[1] \in Record
  BY <1>1 DEF CommitType, Unread
<1>3. ASSUME NEW r \in Record, NEW ts \in Int, ts < monotone
      PROVE  NewestUpTo(Versions(r)', ts) = NewestUpTo(Versions(r), ts)
  <2>1. Versions(r) \subseteq Nat
    BY <1>1, VersionsType
  <2>2. NewestUpTo(Versions(r) \cup {monotone}, ts) = NewestUpTo(Versions(r), ts)
    BY <1>1, <1>3, <2>1, NewestGrows
  <2> QED
    BY <2>2 DEF Grows
<1>4. ASSUME NEW x \in c.saw
      PROVE  /\ NewestUpTo(Versions(x[1])', c.start) = NewestUpTo(Versions(x[1]), c.start)
             /\ NewestUpTo(Versions(x[1])', c.ts - 1) = NewestUpTo(Versions(x[1]), c.ts - 1)
  BY <1>1, <1>2, <1>3
<1>5. /\ \A x \in c.saw : NewestUpTo(Versions(x[1]), c.start)' =
                            NewestUpTo(Versions(x[1])', c.start)
      /\ \A x \in c.saw : NewestUpTo(Versions(x[1]), c.ts - 1)' =
                            NewestUpTo(Versions(x[1])', c.ts - 1)
  BY DEF NewestUpTo, MaxOf
<1> QED
  BY <1>1, <1>4, <1>5 DEF CommitOf, Overwrites

(***************************************************************************)
(* What a transaction leaves in the history.                               *)
(***************************************************************************)
NewCommit(t, ts) ==
  [ts |-> ts, start |-> txn[t].start, complete |-> txn[t].complete,
   saw |-> Saw(t), wrote |-> Wrote(t)]

(***************************************************************************)
(* What a commit has seen is of an entry of the access list.               *)
(***************************************************************************)
LEMMA SawEntry ==
  ASSUME StateInv, NEW t \in Thread, NEW x \in Saw(t)
  PROVE  \E i \in Reads(t) : /\ x[1] = txn[t].accesses[i].record /\ x[1] \in Record
                             /\ x[2] = txn[t].accesses[i].saw
<1>1. PICK e \in Entries(t) : e.type # "INSERT_ONLY" /\ x = <<e.record, e.saw>>
  BY DEF Saw
<1>2. PICK i \in DOMAIN txn[t].accesses : e = txn[t].accesses[i]
  BY <1>1 DEF Entries, Range
<1>3. i \in Reads(t)
  BY <1>1, <1>2 DEF Reads
<1> QED
  BY <1>1, <1>2, <1>3, ReadsIn

(***************************************************************************)
(* A commit under locks has read the newest versions of what it locked.    *)
(***************************************************************************)
LEMMA HeldNewest ==
  ASSUME BaseInv, StampInv, PendingInv, SawInv, NEW t \in Thread,
         pc[t] \in {"lock", "draw"}, txn[t].locked = ToLock(t),
         NEW i \in ToLock(t), scheme = "SIOCC" => txn[t].complete
  PROVE  txn[t].accesses[i].saw =
           NewestUpTo(Versions(txn[t].accesses[i].record), monotone - 1)
<1>1. /\ StateInv /\ VersionInv /\ LockInv /\ ValidOf(t) /\ CompleteOf(t) /\ PcOf(t)
      /\ monotone \in Nat /\ monotone - 1 \in Int /\ latest \in [Record -> Nat]
      /\ txn[t].start \in {-1} \cup Nat
  BY DEF BaseInv, SawInv, StateInv, TypeInv, TxnType, Unread
<1>2. HeldEntries(t) = ToLock(t)
  BY DEF HeldEntries
<1>3. PICK r \in Record : /\ r = txn[t].accesses[i].record
                          /\ r \in ReadHeld(t) \cup WriteHeld(t)
  BY <1>1, <1>2, HeldIn
<1>4. i \in Reads(t)
  BY <1>1, <1>2, HeldIn
<1>5. Pending(r) = {}
  <2>1. ASSUME NEW u \in Thread, r \in PendingOf(u) PROVE FALSE
    <3>1. u = t /\ Installing(u)
      BY <1>1, <1>3, <2>1, PendingWriter DEF PendingOf
    <3> QED
      BY <3>1 DEF Installing
  <2> QED
    BY <2>1 DEF Pending
<1>6. Versions(r) = written[r]
  BY <1>5 DEF PendingInv
<1>7. latest[r] <= monotone - 1 /\ latest[r] \in Nat
  BY <1>1 DEF StampInv
<1>8. NewestUpTo(Versions(r), monotone - 1) = latest[r]
  BY <1>1, <1>6, <1>7, NewestIsAll
<1>9. txn[t].accesses[i].saw = latest[r]
  <2>1. CASE scheme = "SIOCC"
    <3>1. HasSnapshot(t) /\ Running(t)
      BY <2>1 DEF HasSnapshot, Running
    <3>2. txn[t].start # Unread /\ txn[t].start \in Int
      BY <1>1, <3>1 DEF PcOf
    <3>3. latest[r] <= txn[t].start
      BY <1>1, <1>2, <1>3, <1>7, <2>1, <3>2 DEF ValidOf
    <3>4. NewestUpTo(written[r], txn[t].start) = latest[r]
      BY <1>1, <3>2, <3>3, NewestIsAll
    <3>5. txn[t].accesses[i].saw = NewestUpTo(Versions(r), txn[t].start)
      BY <1>1, <1>3, <1>4, <2>1, <3>2 DEF CompleteOf
    <3> QED
      BY <1>6, <3>4, <3>5
  <2>2. CASE scheme # "SIOCC"
    BY <1>1, <1>2, <1>3, <2>2 DEF ValidOf
  <2> QED
    BY <2>1, <2>2
<1> QED
  BY <1>3, <1>8, <1>9

(***************************************************************************)
(* The snapshot of a new commit, for the versions there are afterwards.    *)
(***************************************************************************)
LEMMA VersionsUpTo ==
  ASSUME StateInv, NEW t \in Thread, Grows(t), NEW r \in Record, NEW ts \in Int,
         ts < monotone
  PROVE  NewestUpTo(Versions(r)', ts) = NewestUpTo(Versions(r), ts)
<1>1. Versions(r) \subseteq Nat /\ monotone \in Nat
  BY VersionsType DEF StateInv, TypeInv
<1>2. NewestUpTo(Versions(r) \cup {monotone}, ts) = NewestUpTo(Versions(r), ts)
  BY <1>1, NewestGrows
<1> QED
  BY <1>2 DEF Grows

(***************************************************************************)
(* A commit with a complete snapshot has read all the updates up to it.    *)
(***************************************************************************)
LEMMA CommitSnapshot ==
  ASSUME BaseInv, StampInv, SawInv, NEW t \in Thread, Grows(t), NEW ts,
         NEW c, c = NewCommit(t, ts), c.start # Unread, c.complete, NEW x \in c.saw
  PROVE  x[2] = NewestUpTo(Versions(x[1])', c.start)
<1>1. /\ StateInv /\ CompleteOf(t) /\ txn[t].start < monotone
      /\ txn[t].start \in Int
  BY DEF BaseInv, SawInv, StampInv, StateInv, TypeInv, TxnType, Unread
<1>2. c.start = txn[t].start /\ c.complete = txn[t].complete /\ x \in Saw(t)
  BY DEF NewCommit
<1>3. PICK i \in Reads(t) : /\ x[1] = txn[t].accesses[i].record /\ x[1] \in Record
                            /\ x[2] = txn[t].accesses[i].saw
  BY <1>1, <1>2, SawEntry
<1>4. x[2] = NewestUpTo(Versions(x[1]), txn[t].start)
  BY <1>1, <1>2, <1>3 DEF CompleteOf
<1>5. NewestUpTo(Versions(x[1])', txn[t].start) = NewestUpTo(Versions(x[1]), txn[t].start)
  BY <1>1, <1>3, VersionsUpTo
<1> QED
  BY <1>2, <1>4, <1>5

(***************************************************************************)
(* What is said of an update transaction is true when it commits.          *)
(***************************************************************************)
LEMMA DrawCommit ==
  ASSUME BaseInv, StampInv, PendingInv, SawInv, NEW t \in Thread, Grows(t),
         GetMonotoneTimestamp(t), NEW c, c = NewCommit(t, monotone)
  PROVE  CommitOf(c)'
<1>1. /\ StateInv /\ pc[t] \in {"lock", "draw"} /\ txn[t].locked = ToLock(t)
      /\ scheme' = scheme /\ monotone \in Nat /\ monotone - 1 \in Int /\ monotone - 1 < monotone
  BY DrawPending DEF BaseInv, Grows, Others, StateInv, TypeInv
<1>2. /\ c.start = txn[t].start /\ c.complete = txn[t].complete /\ c.ts = monotone
      /\ c.saw = Saw(t) /\ c.wrote = Wrote(t)
  BY DEF NewCommit
<1>3. ASSUME NEW x \in c.saw, NEW i \in Reads(t), i \in ToLock(t),
             x[1] = txn[t].accesses[i].record, x[1] \in Record,
             x[2] = txn[t].accesses[i].saw, scheme = "SIOCC" => c.complete
      PROVE  x[2] = NewestUpTo(Versions(x[1])', c.ts - 1)
  <2>1. x[2] = NewestUpTo(Versions(x[1]), monotone - 1)
    BY <1>1, <1>2, <1>3, HeldNewest
  <2>2. NewestUpTo(Versions(x[1])', monotone - 1) = NewestUpTo(Versions(x[1]), monotone - 1)
    BY <1>1, <1>3, VersionsUpTo
  <2> QED
    BY <1>2, <2>1, <2>2
<1>4. ASSUME NEW x \in c.saw, scheme = "SIOCC" => c.complete, x[1] \in c.wrote
      PROVE  x[2] = NewestUpTo(Versions(x[1])', c.ts - 1)
  <2>1. PICK i \in Reads(t) : /\ x[1] = txn[t].accesses[i].record /\ x[1] \in Record
                              /\ x[2] = txn[t].accesses[i].saw
    BY <1>1, <1>2, SawEntry
  <2>2. PICK j \in ToInstall(t) : x[1] = txn[t].accesses[j].record
    BY <1>2, <1>4 DEF Wrote
  <2>3. i = j
    <3>1. /\ i \in DOMAIN txn[t].accesses /\ txn[t].accesses[i].type # "INSERT_ONLY"
          /\ j \in DOMAIN txn[t].accesses
          /\ txn[t].accesses[i].record = txn[t].accesses[j].record
      BY <2>1, <2>2 DEF Reads, ToInstall
    <3> QED
      BY <1>1, <3>1, AccessesOf
  <2>4. i \in ToLock(t)
    BY <2>3, LoopsInList
  <2> QED
    BY <1>3, <1>4, <2>1, <2>4
<1>5. ASSUME NEW x \in c.saw, scheme = "MVOCC"
      PROVE  x[2] = NewestUpTo(Versions(x[1])', c.ts - 1)
  <2>1. PICK i \in Reads(t) : /\ x[1] = txn[t].accesses[i].record /\ x[1] \in Record
                              /\ x[2] = txn[t].accesses[i].saw
    BY <1>1, <1>2, SawEntry
  <2>2. i \in DOMAIN txn[t].accesses /\ txn[t].accesses[i].type # "INSERT_ONLY"
    BY DEF Reads
  <2>3. txn[t].accesses[i] \in Entry
    BY <1>1, <2>2, AccessesOf
  <2>4. txn[t].accesses[i].type \in {"READ_ONLY", "READ_WRITE"}
    BY <2>2, <2>3 DEF Entry, AccessType
  <2>5. i \in ToLock(t)
    BY <1>5, <2>2, <2>4 DEF ToLock, Locks
  <2> QED
    BY <1>3, <1>5, <2>1, <2>5
<1>6. ASSUME c.start # Unread, c.complete, NEW x \in c.saw
      PROVE  x[2] = NewestUpTo(Versions(x[1])', c.start)
  BY <1>6, CommitSnapshot
<1>7. /\ \A x \in c.saw : NewestUpTo(Versions(x[1]), c.start)' =
                            NewestUpTo(Versions(x[1])', c.start)
      /\ \A x \in c.saw : NewestUpTo(Versions(x[1]), c.ts - 1)' =
                            NewestUpTo(Versions(x[1])', c.ts - 1)
  BY DEF NewestUpTo, MaxOf
<1> QED
  BY <1>1, <1>4, <1>5, <1>6, <1>7 DEF CommitOf, Overwrites

(***************************************************************************)
(* And of a read-only transaction of MVOCC, which has overwritten nothing. *)
(***************************************************************************)
LEMMA ReadOnlyCommit ==
  ASSUME BaseInv, StampInv, SawInv, NEW t \in Thread, Grows(t), IsReadOnly(txn[t].procedure),
         HasSnapshot(t), pc[t] = "exec", NEW c, c = NewCommit(t, 0)
  PROVE  CommitOf(c)'
<1>1. StateInv /\ scheme' = scheme /\ Running(t)
  BY DEF BaseInv, Grows, Others, Running
<1>2. c.start = txn[t].start /\ c.saw = Saw(t) /\ c.wrote = Wrote(t)
  BY DEF NewCommit
<1>3. c.wrote = {} /\ c.start # Unread
  BY <1>1, <1>2, ReadOnlyWrote DEF StateInv, PcOf
<1>4. ASSUME c.start # Unread, c.complete, NEW x \in c.saw
      PROVE  x[2] = NewestUpTo(Versions(x[1])', c.start)
  BY <1>4, CommitSnapshot
<1>5. \A x \in c.saw : NewestUpTo(Versions(x[1]), c.start)' =
                         NewestUpTo(Versions(x[1])', c.start)
  BY DEF NewestUpTo, MaxOf
<1> QED
  BY <1>3, <1>4, <1>5 DEF CommitOf, Overwrites

(***************************************************************************)
(* HistoryInv is kept by every step.                                       *)
(***************************************************************************)
LEMMA HistoryNext ==
  ASSUME BaseInv, StampInv, PendingInv, SawInv, HistoryInv, [Next]_vars
  PROVE  HistoryInv'
<1>0. StateInv
  BY DEF BaseInv
<1>1. CASE UNCHANGED vars
  <2> USE <1>1 DEF vars, rest
  <2>1. ASSUME NEW c \in committed PROVE CommitOf(c)'
    <3>1. CommitOf(c)
      BY DEF HistoryInv
    <3> QED
      BY <3>1 DEF CommitOf, Overwrites, Versions
  <2> QED
    BY <2>1 DEF HistoryInv
<1>2. CASE \E t \in Thread : \/ Mid(t) \/ Execute(t) \/ GetMonotoneTimestamp(t)
                             \/ WriteAccess(t) \/ EndAction(t)
  <2>1. PICK t \in Thread : \/ Mid(t) \/ Execute(t) \/ GetMonotoneTimestamp(t)
                            \/ WriteAccess(t) \/ EndAction(t)
    BY <1>2
  <2>2. Grows(t)
    BY <2>1, StepGrows
  <2>3. \A c \in committed : CommitOf(c)'
    BY <2>2, OldCommit
  <2>4. CASE committed' = committed
    BY <2>3, <2>4 DEF HistoryInv
  <2>5. CASE GetMonotoneTimestamp(t)
    <3>1. PICK c : c = NewCommit(t, monotone)
      OBVIOUS
    <3>2. committed' = committed \cup {c}
      BY <1>0, <2>5, <3>1, DrawPending DEF Commit, NewCommit
    <3>3. CommitOf(c)'
      BY <2>2, <2>5, <3>1, DrawCommit
    <3> QED
      BY <2>3, <3>2, <3>3 DEF HistoryInv
  <2>6. CASE EndAction(t) /\ committed' # committed
    <3>1. PICK c : c = NewCommit(t, 0)
      OBVIOUS
    <3>2. /\ Commit(t, 0) /\ IsReadOnly(txn[t].procedure) /\ HasSnapshot(t)
          /\ pc[t] = "exec"
      BY <1>0, <2>6, EndPending
    <3>3. committed' = committed \cup {c}
      BY <3>1, <3>2 DEF Commit, NewCommit
    <3>4. CommitOf(c)'
      BY <2>2, <3>1, <3>2, ReadOnlyCommit
    <3> QED
      BY <2>3, <3>3, <3>4 DEF HistoryInv
  <2>7. committed' = committed \/ GetMonotoneTimestamp(t) \/ EndAction(t)
    BY <1>0, <2>1, ExecutePending, WritePending DEF Mid
  <2> QED
    BY <2>4, <2>5, <2>6, <2>7
<1> QED
  BY <1>1, <1>2, StepKinds

-----------------------------------------------------------------------------
(***************************************************************************)
(* The bound.  A transaction begins below MaxTs, and each that has begun   *)
(* draws one timestamp at most.                                            *)
(***************************************************************************)
Ahead == {t \in Thread : pc[t] \in {"exec", "read", "lock", "draw"}}

BoundInv == monotone + Cardinality(Ahead) <= MaxTs + Cardinality(Thread) + 1

(***************************************************************************)
(* The sets of threads are finite.                                         *)
(***************************************************************************)
LEMMA AheadSize ==
  ASSUME SnapshotConstants, NEW S, S \subseteq Thread
  PROVE  /\ IsFiniteSet(S) /\ Cardinality(S) \in Nat /\ Cardinality(Thread) \in Nat
         /\ Cardinality(S) <= Cardinality(Thread) /\ MaxTs \in Nat
BY FS_Subset, FS_CardinalityType DEF SnapshotConstants

(***************************************************************************)
(* No other step than Execute adds a transaction that can draw a           *)
(* timestamp.                                                              *)
(***************************************************************************)
LEMMA AheadStep ==
  ASSUME StateInv, NEW t \in Thread, Step(t), ~Execute(t), ~GetMonotoneTimestamp(t)
  PROVE  monotone' = monotone /\ Ahead' \subseteq Ahead
<1>1. pc \in [Thread -> Pc]
  BY DEF StateInv, TypeInv
<1>2. CASE InsertRecord(t) \/ SelectSnapshot(t) \/ WriteAccess(t) \/ ReleaseLock(t)
           \/ ReleaseAborted(t)
  BY <1>2 DEF InsertRecord, SelectSnapshot, WriteAccess, ReleaseLock, ReleaseAborted, Ahead
<1>3. CASE SelectNewest(t) \/ ReadAccess(t) \/ CommitTransaction(t) \/ AcquireLock(t)
  <2>1. /\ pc[t] \in {"exec", "read", "lock"} /\ monotone' = monotone
        /\ \A u \in Thread : u # t => pc'[u] = pc[u]
    BY <1>1, <1>3 DEF SelectNewest, ReadAccess, CommitTransaction, AcquireLock, Accessing
  <2> QED
    BY <2>1 DEF Ahead
<1>4. CASE SelectLocked(t)
  BY <1>1, <1>4 DEF SelectLocked, Accessing, Ahead
<1>5. CASE EndInstall(t) \/ SetThreadTimestamp(t) \/ CommitReadOnly(t) \/ ReturnAborted(t)
  <2>1. /\ pc'[t] \in {"release", "idle", "done"} /\ monotone' = monotone
        /\ \A u \in Thread : u # t => pc'[u] = pc[u]
    BY <1>1, <1>5 DEF EndInstall, SetThreadTimestamp, CommitReadOnly, ReturnAborted
  <2> QED
    BY <2>1 DEF Ahead
<1> QED
  BY <1>2, <1>3, <1>4, <1>5 DEF Step

(***************************************************************************)
(* BoundInv is kept by every step.                                         *)
(***************************************************************************)
LEMMA BoundNext == ASSUME StateInv, BoundInv, [Next]_vars PROVE BoundInv'
<1>1. SnapshotConstants /\ monotone \in Nat
  BY DEF StateInv, TypeInv
<1> DEFINE n == Cardinality(Ahead)
           m == Cardinality(Ahead')
           k == Cardinality(Thread)
<1>2. /\ IsFiniteSet(Ahead) /\ n \in Nat /\ k \in Nat /\ m \in Nat /\ m <= k
      /\ MaxTs \in Nat
  BY <1>1, AheadSize DEF Ahead
<1>3. monotone + n <= MaxTs + k + 1
  BY DEF BoundInv
<1>4. ASSUME monotone' + m <= MaxTs + k + 1 PROVE BoundInv'
  BY <1>4 DEF BoundInv
<1>5. CASE UNCHANGED vars
  <2>1. Ahead' = Ahead /\ monotone' = monotone
    BY <1>5 DEF vars, Ahead
  <2> QED
    BY <1>3, <1>4, <2>1
<1>6. ASSUME NEW t \in Thread, Execute(t) PROVE BoundInv'
  <2>1. monotone <= MaxTs /\ monotone' = monotone
    BY <1>6 DEF Execute
  <2> HIDE DEF m, k
  <2>2. monotone + m <= MaxTs + k + 1
    BY <1>1, <1>2, <2>1
  <2> QED
    BY <1>4, <2>1, <2>2
<1>7. ASSUME NEW t \in Thread, GetMonotoneTimestamp(t) PROVE BoundInv'
  <2>1. /\ t \in Ahead /\ Ahead' = Ahead \ {t} /\ monotone' = monotone + 1
    <3>1. /\ Others(t) /\ pc[t] \in {"lock", "draw"} /\ pc'[t] = "install"
          /\ monotone' = monotone + 1
      BY <1>7, DrawStep
    <3> QED
      BY <3>1 DEF Ahead, Others
  <2>2. m = n - 1
    BY <1>2, <2>1, FS_RemoveElement
  <2> HIDE DEF m, n, k
  <2>3. monotone + 1 + m <= MaxTs + k + 1
    BY <1>1, <1>2, <1>3, <2>2
  <2> QED
    BY <1>4, <2>1, <2>3
<1>8. ASSUME NEW t \in Thread, Step(t), ~Execute(t), ~GetMonotoneTimestamp(t)
      PROVE  BoundInv'
  <2>1. monotone' = monotone /\ Ahead' \subseteq Ahead
    BY <1>8, AheadStep
  <2>2. m <= n
    BY <1>2, <2>1, FS_Subset
  <2> HIDE DEF m, n, k
  <2>3. monotone + m <= MaxTs + k + 1
    BY <1>1, <1>2, <1>3, <2>2
  <2> QED
    BY <1>4, <2>1, <2>3
<1> QED
  BY <1>5, <1>6, <1>7, <1>8 DEF Next, Joined

-----------------------------------------------------------------------------
(***************************************************************************)
(* The inductive invariant.                                                *)
(***************************************************************************)
InductiveInv ==
  BaseInv /\ StampInv /\ PendingInv /\ SawInv /\ HistoryInv /\ BoundInv

(***************************************************************************)
(* InductiveInv at the start.                                               *)
(***************************************************************************)
LEMMA InductiveInit == ASSUME SnapshotConstants, Init PROVE InductiveInv
<1>1. BaseInv
  BY StateInit, LockInit DEF BaseInv
<1>2. ASSUME NEW t \in Thread
      PROVE  /\ PendingOf(t) = {} /\ txn[t].start = -1 /\ txn[t].commitTs = 0
             /\ t \notin Ahead
  BY NoTxnType DEF Init, PendingOf, Installing, Ahead, Unread
<1>3. StampInv
  BY <1>2 DEF Init, StampInv
<1>4. PendingInv
  BY <1>2 DEF Init, PendingInv, Pending, Versions
<1>5. SawInv /\ HistoryInv
  BY SawInit DEF Init, HistoryInv
<1>6. BoundInv
  <2>1. Ahead = {}
    BY <1>2 DEF Ahead
  <2>2. Cardinality(Ahead) = 0 /\ monotone = 1
    BY <2>1, FS_EmptySet DEF Init
  <2>3. Cardinality(Thread) \in Nat /\ MaxTs \in Nat
    BY AheadSize
  <2> QED
    BY <2>2, <2>3 DEF BoundInv
<1> QED
  BY <1>1, <1>3, <1>4, <1>5, <1>6 DEF InductiveInv

(***************************************************************************)
(* InductiveInv is kept by every step.                                      *)
(***************************************************************************)
LEMMA InductiveNext == ASSUME InductiveInv, [Next]_vars PROVE InductiveInv'
<1>1. /\ BaseInv /\ StampInv /\ PendingInv /\ SawInv /\ HistoryInv /\ BoundInv
      /\ StateInv /\ VersionInv /\ StartInv /\ LockInv
  BY DEF InductiveInv, BaseInv
<1>2. StateInv' /\ VersionInv' /\ StartInv' /\ LockInv'
  BY <1>1, StateNext, VersionNext, StartNext, LockNext
<1>3. BaseInv'
  BY <1>2 DEF BaseInv
<1>4. StampInv' /\ PendingInv' /\ SawInv' /\ HistoryInv' /\ BoundInv'
  BY <1>1, StampNext, PendingNext, SawNext, HistoryNext, BoundNext
<1> QED
  BY <1>3, <1>4 DEF InductiveInv

(***************************************************************************)
(* InductiveInv is an invariant.                                            *)
(***************************************************************************)
LEMMA Invariant == ASSUME SnapshotConstants PROVE Spec => []InductiveInv
<1>1. Init => InductiveInv
  BY InductiveInit
<1>2. InductiveInv /\ [Next]_vars => InductiveInv'
  BY InductiveNext
<1> QED
  BY <1>1, <1>2, PTL DEF Spec

-----------------------------------------------------------------------------
(***************************************************************************)
(* The types of the variables.                                             *)
(***************************************************************************)
LEMMA Typed == ASSUME InductiveInv PROVE TypeOK
<1> DEFINE k == Cardinality(Thread)
<1>1. /\ StateInv /\ VersionInv /\ LockInv /\ StampInv /\ BoundInv /\ TypeInv
      /\ SnapshotConstants
  BY DEF InductiveInv, BaseInv, StateInv, TypeInv
<1>2. /\ Cardinality(Ahead) \in Nat /\ k \in Nat /\ MaxTs \in Nat /\ monotone \in Nat
  BY <1>1, AheadSize DEF Ahead, TypeInv
<1>3. monotone <= MaxTs + k + 1
  <2>1. monotone + Cardinality(Ahead) <= MaxTs + k + 1
    BY <1>1 DEF BoundInv
  <2> HIDE DEF k
  <2> QED
    BY <1>2, <2>1
<1>4. Ts = 0..(MaxTs + k)
  BY DEF Ts
<1> HIDE DEF k
<1>5. ASSUME NEW n \in Nat, n < monotone PROVE n \in Ts
  BY <1>2, <1>3, <1>4, <1>5
<1>6. ASSUME NEW r \in Record
      PROVE  /\ latest[r] \in Ts /\ written[r] \subseteq Ts
             /\ Range(history[r]) \subseteq written[r]
  <2>1. latest[r] \in Nat /\ latest[r] < monotone
    BY <1>1 DEF TypeInv, StampInv
  <2>2. ASSUME NEW v \in written[r] PROVE v \in Ts
    <3>1. v \in Nat /\ v <= latest[r]
      BY <1>1, NewestIsLatest
    <3>2. v < monotone
      BY <1>2, <2>1, <3>1
    <3> QED
      BY <1>5, <3>1, <3>2
  <2> QED
    BY <1>1, <1>5, <2>1, <2>2 DEF VersionInv, VersionOf
<1>7. latest \in [Record -> Ts] /\ written \in [Record -> SUBSET Ts]
  BY <1>1, <1>6 DEF TypeInv
<1>8. monotone \in Ts \cup {MaxTs + Cardinality(Thread) + 1}
  BY <1>2, <1>3, <1>4 DEF k
<1>9. threadTs \in [Thread -> Ts]
  <2>1. ASSUME NEW t \in Thread PROVE threadTs[t] \in Ts
    BY <1>1, <1>5 DEF StateInv, TsOf, TypeInv
  <2> QED
    BY <1>1, <2>1 DEF TypeInv
<1>10. \A t \in Thread : /\ txn[t].procedure \in Procedures \cup {<<>>}
                         /\ txn[t].locked \subseteq ToLock(t)
  BY <1>1 DEF StateInv, TypeInv, TxnType, LoopOf
<1>11. /\ scheme \in Scheme /\ isFinish \in BOOLEAN /\ left \in [Thread -> 0..Batch]
       /\ pc \in [Thread -> Pc] /\ lock \in [Record -> LockType]
  BY <1>1 DEF TypeInv, LockInv
<1> QED
  BY <1>6, <1>7, <1>8, <1>9, <1>10, <1>11 DEF TypeOK, Pc

(***************************************************************************)
(* TypeOK is an invariant of the specification, whatever the build option, *)
(* the threads, the records and the procedures.                            *)
(***************************************************************************)
THEOREM TypeCorrect == ASSUME SnapshotConstants PROVE Spec => []TypeOK
BY Invariant, Typed, PTL

(***************************************************************************)
(* Garbage collection takes no version that a running snapshot can read.   *)
(***************************************************************************)
LEMMA Kept == ASSUME InductiveInv PROVE VersionsKept
<1>1. StateInv /\ VersionInv /\ StartInv
  BY DEF InductiveInv, BaseInv
<1>2. ASSUME NEW t \in Thread, txn[t].start # Unread, NEW r \in Record
      PROVE  VersionAt(history[r], txn[t].start) = NewestUpTo(written[r], txn[t].start)
  <2>1. txn[t].start \in Nat /\ threadTs[t] <= txn[t].start
    BY <1>1, <1>2 DEF StateInv, TypeInv, TxnType, StartInv
  <2> QED
    BY <1>1, <2>1, SnapshotRead
<1> QED
  BY <1>2 DEF VersionsKept

(***************************************************************************)
(* VersionsKept: ClearHistory, called while other transactions run, takes  *)
(* no version that one of them can still read at its snapshot.             *)
(***************************************************************************)
THEOREM SnapshotsKept == ASSUME SnapshotConstants PROVE Spec => []VersionsKept
BY Invariant, Kept, PTL

(***************************************************************************)
(* A snapshot is consistent unless a commit below it was still installing. *)
(***************************************************************************)
THEOREM SnapshotsConsistent ==
  ASSUME SnapshotConstants PROVE Spec => []SnapshotUnlessInFlight
<1>1. InductiveInv => SnapshotUnlessInFlight
  BY DEF InductiveInv, HistoryInv, CommitOf, SnapshotUnlessInFlight
<1> QED
  BY <1>1, Invariant, PTL

(***************************************************************************)
(* No update is lost: under SILOCK and MVOCC always, under SIOCC if the    *)
(* snapshot was complete.                                                  *)
(***************************************************************************)
THEOREM UpdatesKept == ASSUME SnapshotConstants PROVE Spec => []NoUpdateLost
<1>1. InductiveInv => NoUpdateLost
  BY DEF InductiveInv, HistoryInv, CommitOf, NoUpdateLost
<1> QED
  BY <1>1, Invariant, PTL

(***************************************************************************)
(* The update transactions of MVOCC are serial in the order of their       *)
(* commit timestamps.                                                      *)
(***************************************************************************)
THEOREM UpdatesInCommitOrder == ASSUME SnapshotConstants PROVE Spec => []UpdatesSerial
<1>1. InductiveInv => UpdatesSerial
  BY DEF InductiveInv, HistoryInv, CommitOf, UpdatesSerial
<1> QED
  BY <1>1, Invariant, PTL
=============================================================================
