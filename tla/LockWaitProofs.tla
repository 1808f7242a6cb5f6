-------------------------- MODULE LockWaitProofs --------------------------
(***************************************************************************)
(* What wait-die locking guarantees for every number of threads and        *)
(* records: types, and lists of owners and waiters that agree with the     *)
(* transactions and never make an older transaction wait for an older one. *)
(***************************************************************************)
EXTENDS LockWait, FiniteSetTheorems, SequenceTheorems, TLAPS

-----------------------------------------------------------------------------
(***************************************************************************)
(* The lists of waiters.                                                   *)
(***************************************************************************)

(***************************************************************************)
(* A set of positions that contains, with each of them, all before it.     *)
(***************************************************************************)
LEMMA Prefix ==
  ASSUME NEW n \in Nat, NEW S \in SUBSET (1..n),
         \A i \in S : 1..i \subseteq S
  PROVE  Cardinality(S) \in 0..n /\ S = 1..Cardinality(S)
<1> DEFINE k == Cardinality(S)
<1>1. IsFiniteSet(1..n) /\ Cardinality(1..n) = n
  BY FS_Interval
<1>2. IsFiniteSet(S) /\ k \in Nat /\ k <= n
  <2>1. IsFiniteSet(S) /\ Cardinality(S) <= Cardinality(1..n)
    BY <1>1, FS_Subset
  <2>2. Cardinality(S) \in Nat
    BY <2>1, FS_CardinalityType
  <2> QED
    BY <1>1, <2>1, <2>2
<1>3. ASSUME NEW i \in S PROVE i \in 1..k
  <2>1. IsFiniteSet(1..i) /\ Cardinality(1..i) = i
    BY FS_Interval
  <2>2. i <= k
    BY <1>2, <2>1, FS_Subset
  <2> QED
    BY <1>2, <2>2
<1>4. IsFiniteSet(1..k) /\ Cardinality(1..k) = k
  BY <1>2, FS_Interval
<1>5. S \in SUBSET (1..k)
  BY <1>3
<1>6. 1..k = S
  BY <1>4, <1>5, FS_Subset
<1> QED
  BY <1>2, <1>6

(***************************************************************************)
(* Inserting an element behind the first n.                                *)
(***************************************************************************)
LEMMA Inserted ==
  ASSUME NEW T, NEW queue \in Seq(T), NEW entry \in T,
         NEW n \in 0..Len(queue)
  PROVE  LET q == InsertAt(queue, n + 1, entry)
         IN  /\ q \in Seq(T) /\ Len(q) = Len(queue) + 1
             /\ DOMAIN q = 1..(Len(queue) + 1)
             /\ \A i \in 1..n : q[i] = queue[i]
             /\ q[n + 1] = entry
             /\ \A i \in (n + 1)..Len(queue) : q[i + 1] = queue[i]
<1> DEFINE len == Len(queue)
           before == SubSeq(queue, 1, n)
           after == SubSeq(queue, n + 1, len)
           front == before \o <<entry>>
           q == InsertAt(queue, n + 1, entry)
<1>1. len \in Nat /\ n \in Nat /\ n <= len
  BY LenProperties
<1>2. \A i \in 1..len : queue[i] \in T
  BY ElementOfSeq
<1>3. q = front \o after
  <2>1. (n + 1) - 1 = n
    BY <1>1
  <2> QED
    BY <2>1 DEF InsertAt
<1> HIDE DEF q
<1>4. /\ before \in Seq(T) /\ Len(before) = n
      /\ \A i \in 1..n : before[i] = queue[i]
  <2>1. \A i \in 1..n : queue[i] \in T
    BY <1>1, <1>2
  <2>2. n - 1 + 1 = n /\ \A i \in 1..n : 1 + i - 1 = i
    BY <1>1
  <2> QED
    BY <1>1, <2>1, <2>2, SubSeqProperties
<1>5. /\ after \in Seq(T) /\ Len(after) = len - n
      /\ \A i \in 1..(len - n) : after[i] = queue[n + i]
  <2>1. \A i \in (n + 1)..len : queue[i] \in T
    BY <1>1, <1>2
  <2>2. /\ len - (n + 1) + 1 = len - n
        /\ \A i \in 1..(len - n) : (n + 1) + i - 1 = n + i
    BY <1>1
  <2>3. n + 1 \in Int /\ len \in Int
    BY <1>1
  <2>4. /\ after \in Seq(T)
        /\ Len(after) = IF n + 1 <= len THEN len - (n + 1) + 1 ELSE 0
        /\ \A i \in 1..(len - (n + 1) + 1) : after[i] = queue[(n + 1) + i - 1]
    BY <2>1, <2>3, SubSeqProperties
  <2>5. Len(after) = len - n
    <3>1. len - (n + 1) + 1 = len - n
      BY <1>1
    <3>2. CASE n + 1 <= len
      BY <2>4, <3>1, <3>2
    <3>3. CASE n = len
      <4>1. ~(n + 1 <= len) /\ len - n = 0
        BY <1>1, <3>3
      <4> QED
        BY <2>4, <4>1
    <3> QED
      BY <1>1, <3>2, <3>3
  <2> QED
    BY <2>2, <2>4, <2>5
<1>6. /\ <<entry>> \in Seq(T) /\ Len(<<entry>>) = 1 /\ <<entry>>[1] = entry
  OBVIOUS
<1> HIDE DEF before, after
<1>7. /\ front \in Seq(T) /\ Len(front) = n + 1
      /\ \A i \in 1..n : front[i] = queue[i]
      /\ front[n + 1] = entry
  <2>1. /\ front \in Seq(T) /\ Len(front) = n + 1
        /\ \A i \in 1..(n + 1) : front[i] = IF i <= n THEN before[i]
                                             ELSE <<entry>>[i - n]
    BY <1>4, <1>6, ConcatProperties
  <2>2. (n + 1) - n = 1 /\ n + 1 \in 1..(n + 1) /\ ~(n + 1 <= n)
    BY <1>1
  <2> QED
    BY <1>1, <1>4, <1>6, <2>1, <2>2
<1> HIDE DEF front
<1>8. /\ q \in Seq(T) /\ Len(q) = (n + 1) + (len - n)
      /\ \A i \in 1..((n + 1) + (len - n)) :
           q[i] = IF i <= n + 1 THEN front[i] ELSE after[i - (n + 1)]
  <2>1. /\ q \in Seq(T) /\ Len(q) = Len(front) + Len(after)
        /\ \A i \in 1..(Len(front) + Len(after)) :
             q[i] = IF i <= Len(front) THEN front[i] ELSE after[i - Len(front)]
    BY <1>3, <1>5, <1>7, ConcatProperties
  <2> QED
    BY <1>5, <1>7, <2>1
<1>9. (n + 1) + (len - n) = len + 1
  BY <1>1
<1>10. \A i \in 1..n : q[i] = queue[i]
  BY <1>1, <1>7, <1>8, <1>9, SMTT(30)
<1>11. q[n + 1] = entry
  BY <1>1, <1>7, <1>8, <1>9
<1>12. ASSUME NEW i \in (n + 1)..len PROVE q[i + 1] = queue[i]
  <2>1. /\ i + 1 \in 1..(len + 1) /\ ~(i + 1 <= n + 1)
        /\ (i + 1) - (n + 1) \in 1..(len - n)
        /\ n + ((i + 1) - (n + 1)) = i
    BY <1>1
  <2> QED
    BY <1>5, <1>8, <1>9, <2>1
<1>13. DOMAIN q = 1..(len + 1)
  BY <1>8, <1>9, LenProperties
<1> QED
  BY <1>8, <1>9, <1>10, <1>11, <1>12, <1>13 DEF q

\* From large to small, so that the oldest transaction is last.
Sorted(queue) == \A i, j \in DOMAIN queue : i < j => queue[j].ts < queue[i].ts

(***************************************************************************)
(* BufferWaiter puts the entry between those with larger and those with    *)
(* smaller timestamps.                                                     *)
(***************************************************************************)
LEMMA Buffered ==
  ASSUME NEW queue \in Seq(Waiter), NEW entry \in Waiter, Sorted(queue),
         \A i \in DOMAIN queue : queue[i].ts # entry.ts
  PROVE  LET q == BufferWaiter(queue, entry)
         IN  /\ q \in Seq(Waiter) /\ Sorted(q)
             /\ \E k \in DOMAIN q : q[k] = entry
             /\ \A i \in DOMAIN q :
                  q[i] = entry \/ \E j \in DOMAIN queue : q[i] = queue[j]
             /\ \A j \in DOMAIN queue : \E i \in DOMAIN q : q[i] = queue[j]
<1> DEFINE S == {i \in DOMAIN queue : entry.ts < queue[i].ts}
           n == Cardinality(S)
           len == Len(queue)
           q == BufferWaiter(queue, entry)
<1>1. /\ len \in Nat /\ DOMAIN queue = 1..len
      /\ \A i \in 1..len : queue[i] \in Waiter /\ queue[i].ts \in Nat
  <2>1. len \in Nat /\ DOMAIN queue = 1..len
    BY LenProperties
  <2>2. \A i \in 1..len : queue[i] \in Waiter
    BY ElementOfSeq
  <2> QED
    BY <2>1, <2>2 DEF Waiter
<1>2. entry.ts \in Nat
  BY DEF Waiter
<1>3. ASSUME NEW i \in S PROVE 1..i \subseteq S
  BY <1>1, <1>2, <1>3, SMTT(30) DEF Sorted
<1>4. S \in SUBSET (1..len)
  BY <1>1
<1> HIDE DEF S, len
<1>5. n \in 0..len /\ S = 1..n
  BY <1>1, <1>3, <1>4, Prefix
<1>6. q = InsertAt(queue, n + 1, entry)
  BY DEF BufferWaiter, S
<1> HIDE DEF q, n
<1>7. /\ q \in Seq(Waiter) /\ DOMAIN q = 1..(len + 1)
      /\ \A i \in 1..n : q[i] = queue[i]
      /\ q[n + 1] = entry
      /\ \A i \in (n + 1)..len : q[i + 1] = queue[i]
  <2>1. n \in 0..Len(queue)
    BY <1>5 DEF len
  <2> DEFINE p == InsertAt(queue, n + 1, entry)
  <2>2. /\ p \in Seq(Waiter) /\ DOMAIN p = 1..(Len(queue) + 1)
        /\ \A i \in 1..n : p[i] = queue[i]
        /\ p[n + 1] = entry
        /\ \A i \in (n + 1)..Len(queue) : p[i + 1] = queue[i]
    BY <2>1, Inserted, SMTT(30)
  <2> QED
    BY <1>6, <2>2 DEF len
<1>8. \A i \in 1..n : entry.ts < queue[i].ts
  BY <1>5 DEF S
<1>9. \A i \in (n + 1)..len : queue[i].ts < entry.ts
  <2> SUFFICES ASSUME NEW i \in (n + 1)..len PROVE queue[i].ts < entry.ts
    OBVIOUS
  <2>1. i \in 1..len /\ i \notin 1..n
    BY <1>1, <1>5
  <2>2. ~(entry.ts < queue[i].ts)
    BY <1>1, <1>5, <2>1 DEF S
  <2> QED
    BY <1>1, <1>2, <2>1, <2>2
<1>10. ASSUME NEW i \in DOMAIN q
       PROVE  \/ i \in 1..n /\ q[i] = queue[i]
              \/ i = n + 1 /\ q[i] = entry
              \/ i - 1 \in (n + 1)..len /\ q[i] = queue[i - 1]
  <2>1. CASE i > n + 1
    <3>1. i - 1 \in (n + 1)..len /\ (i - 1) + 1 = i
      BY <1>1, <1>5, <1>7, <2>1
    <3> QED
      BY <1>7, <3>1
  <2> QED
    BY <1>1, <1>5, <1>7, <2>1
<1>11. Sorted(q)
  <2> SUFFICES ASSUME NEW i \in DOMAIN q, NEW j \in DOMAIN q, i < j
               PROVE  q[j].ts < q[i].ts
    BY DEF Sorted
  <2>1. CASE i \in 1..n /\ q[i] = queue[i]
    <3>1. entry.ts < q[i].ts
      BY <1>8, <2>1
    <3>2. ASSUME NEW k \in 1..len, i < k PROVE queue[k].ts < q[i].ts
      BY <1>1, <1>5, <2>1, <3>2 DEF Sorted
    <3>3. CASE j \in 1..n /\ q[j] = queue[j]
      BY <1>1, <1>5, <3>2, <3>3
    <3>4. CASE j = n + 1 /\ q[j] = entry
      BY <3>1, <3>4
    <3>5. CASE j - 1 \in (n + 1)..len /\ q[j] = queue[j - 1]
      <4>1. j - 1 \in 1..len /\ i < j - 1
        BY <1>1, <1>5, <1>7, <2>1, <3>5
      <4> QED
        BY <3>2, <3>5, <4>1
    <3> QED
      BY <1>10, <3>3, <3>4, <3>5
  <2>2. CASE i = n + 1 /\ q[i] = entry
    <3>1. j - 1 \in (n + 1)..len /\ q[j] = queue[j - 1]
      BY <1>1, <1>5, <1>7, <1>10, <2>2
    <3> QED
      BY <1>9, <2>2, <3>1
  <2>3. CASE i - 1 \in (n + 1)..len /\ q[i] = queue[i - 1]
    <3>1. j - 1 \in (n + 1)..len /\ q[j] = queue[j - 1]
      BY <1>1, <1>5, <1>7, <1>10, <2>3
    <3>2. i - 1 < j - 1 /\ i - 1 \in 1..len /\ j - 1 \in 1..len
      BY <1>1, <1>5, <1>7, <2>3, <3>1
    <3> QED
      BY <1>1, <2>3, <3>1, <3>2 DEF Sorted
  <2> QED
    BY <1>10, <2>1, <2>2, <2>3
<1>12. \E k \in DOMAIN q : q[k] = entry
  BY <1>1, <1>5, <1>7
<1>13. ASSUME NEW i \in DOMAIN q
       PROVE  q[i] = entry \/ \E j \in DOMAIN queue : q[i] = queue[j]
  BY <1>1, <1>5, <1>7, <1>10
<1>14. ASSUME NEW j \in DOMAIN queue PROVE \E i \in DOMAIN q : q[i] = queue[j]
  <2>1. CASE j <= n
    BY <1>1, <1>5, <1>7, <2>1
  <2>2. CASE j > n
    <3>1. j \in (n + 1)..len /\ j + 1 \in 1..(len + 1)
      BY <1>1, <1>5, <2>2 DEF len
    <3> QED
      BY <1>7, <3>1
  <2> QED
    BY <1>1, <1>5, <2>1, <2>2
<1> QED
  BY <1>7, <1>11, <1>12, <1>13, <1>14 DEF q

(***************************************************************************)
(* DebufferWaiters grants the first entries of the list, at least one, and *)
(* more than one only if all of them want to read.                         *)
(***************************************************************************)
LEMMA Granting ==
  ASSUME NEW queue \in Seq(Waiter)
  PROVE  /\ GrantCount(queue) \in 0..Len(queue)
         /\ GrantCount(queue) = 0 <=> queue = <<>>
         /\ GrantCount(queue) > 1 =>
              \A i \in 1..GrantCount(queue) : queue[i].type = "READ_LOCK"
<1> DEFINE S == {i \in DOMAIN queue :
                   \/ i = 1
                   \/ \A j \in 1..i : queue[j].type = "READ_LOCK"}
           n == GrantCount(queue)
<1>1. Len(queue) \in Nat /\ DOMAIN queue = 1..Len(queue)
  BY LenProperties
<1>2. ASSUME NEW i \in S PROVE 1..i \subseteq S
  BY <1>1, <1>2
<1>3. n = Cardinality(S)
  BY DEF GrantCount
<1>4. n \in 0..Len(queue) /\ S = 1..n
  BY <1>1, <1>2, <1>3, Prefix
<1>5. n = 0 <=> queue = <<>>
  <2>1. queue # <<>> => Len(queue) # 0
    BY <1>1, EmptySeq
  <2>2. queue = <<>> => Len(queue) = 0
    BY EmptySeq
  <2>3. Len(queue) # 0 => 1 \in S
    BY <1>1
  <2> QED
    BY <1>1, <1>4, <2>1, <2>2, <2>3
<1>6. ASSUME n > 1, NEW i \in 1..n PROVE queue[i].type = "READ_LOCK"
  <2>1. n \in S
    BY <1>4, <1>6
  <2> QED
    BY <1>4, <1>6, <2>1
<1> QED
  BY <1>4, <1>5, <1>6

-----------------------------------------------------------------------------
(***************************************************************************)
(* Type correctness.  It takes that a thread which runs has a transaction  *)
(* left, that an update has copied the record, and that a thread waits for *)
(* something.                                                              *)
(***************************************************************************)
BatchLeft == \A t \in Thread : pc[t] # "done" => left[t] # 0

Copied ==
  \A t \in Thread : \A i \in DOMAIN accesses[t] :
    accesses[t][i].type = "READ_WRITE" => accesses[t][i].seen \in Writer

Requested ==
  \A t \in Thread : pc[t] \in {"acquire", "wait"} => request[t] \in Request

TypeInv == TypeOK /\ BatchLeft /\ Copied /\ Requested

(***************************************************************************)
(* The initial state is well typed: no thread has an entry.                *)
(***************************************************************************)
LEMMA InitType == Init => TypeInv
<1> SUFFICES ASSUME Init PROVE TypeInv
  OBVIOUS
<1> USE LockWaitConstants DEF LockWaitConstants, Init
<1>1. ZeroTs \in Timestamp
  BY DEF ZeroTs, Timestamp
<1>2. /\ <<>> \in Seq(Waiter) /\ <<>> \in Seq(Entry)
      /\ \A t \in Thread : DOMAIN accesses[t] = {}
  OBVIOUS
<1>3. Loader \in Writer
  BY DEF Writer
<1>4. word \in [Record -> Writer] /\ visible \in [Record -> BOOLEAN]
  BY <1>3
<1>5. /\ ts \in [Record -> Timestamp] /\ commitTs \in [Thread -> Timestamp]
      /\ waiters \in [Record -> Seq(Waiter)]
      /\ accesses \in [Thread -> Seq(Entry)]
  BY <1>1, <1>2
<1>6. /\ owners \in [Record -> SUBSET Nat]
      /\ lockType \in [Record -> {"NO_LOCK", "READ_LOCK", "WRITE_LOCK"}]
      /\ request \in [Thread -> Request \cup {NoRequest}]
  OBVIOUS
<1>7. /\ epoch \in Nat /\ monotone \in Nat /\ isFinish \in BOOLEAN
      /\ pc \in [Thread -> {"idle", "exec", "acquire", "wait", "timestamp",
                            "stamp", "release", "undo", "done"}]
      /\ left \in [Thread -> 0..Batch]
  <2>1. Batch \in 0..Batch
    OBVIOUS
  <2>2. left \in [Thread -> 0..Batch]
    BY <2>1
  <2>3. pc \in [Thread -> {"idle", "exec", "acquire", "wait", "timestamp",
                          "stamp", "release", "undo", "done"}]
    OBVIOUS
  <2> QED
    BY <2>2, <2>3
<1>8. /\ isFirst \in [Thread -> BOOLEAN] /\ startTs \in [Thread -> Nat]
      /\ ready \in [Thread -> BOOLEAN]
      /\ finished \in [Thread -> Nat] /\ restored \in [Thread -> BOOLEAN]
      /\ currEpoch \in [Thread -> Nat]
  OBVIOUS
<1>9. TypeOK
  BY <1>4, <1>5, <1>6, <1>7, <1>8 DEF TypeOK
<1> QED
  BY <1>2, <1>9 DEF TypeInv, BatchLeft, Copied, Requested

(***************************************************************************)
(* An entry of an access list, and the list after a change of it.          *)
(***************************************************************************)
LEMMA EntryType ==
  ASSUME TypeOK, NEW t \in Thread, NEW i \in DOMAIN accesses[t]
  PROVE  accesses[t][i] \in Entry /\ i \in 1..Len(accesses[t])
<1>1. accesses[t] \in Seq(Entry)
  BY DEF TypeOK
<1> QED
  BY <1>1, LenProperties, ElementOfSeq

(***************************************************************************)
(* An entry rewritten in place keeps its list typed, and the copies of the *)
(* other entries present.                                                  *)
(***************************************************************************)
LEMMA EntryChanged ==
  ASSUME TypeInv, NEW t \in Thread, NEW i \in DOMAIN accesses[t],
         NEW e \in Entry, e.type = accesses[t][i].type,
         e.type = "READ_WRITE" => e.seen \in Writer,
         accesses' = [accesses EXCEPT ![t] = [accesses[t] EXCEPT ![i] = e]]
  PROVE  accesses' \in [Thread -> Seq(Entry)] /\ Copied'
<1>1. accesses \in [Thread -> Seq(Entry)] /\ i \in 1..Len(accesses[t])
  BY EntryType DEF TypeInv, TypeOK
<1>2. /\ [accesses[t] EXCEPT ![i] = e] \in Seq(Entry)
      /\ DOMAIN [accesses[t] EXCEPT ![i] = e] = DOMAIN accesses[t]
  BY <1>1, ExceptSeq
<1>3. accesses' \in [Thread -> Seq(Entry)]
  BY <1>1, <1>2
<1>4. Copied'
  BY <1>1, <1>2 DEF Copied, TypeInv
<1> QED
  BY <1>3, <1>4

(***************************************************************************)
(* A new entry at the end of the list.                                     *)
(***************************************************************************)
LEMMA EntryAppended ==
  ASSUME TypeInv, NEW t \in Thread, NEW e \in Entry,
         e.type = "READ_WRITE" => e.seen \in Writer,
         accesses' = [accesses EXCEPT ![t] = Append(accesses[t], e)]
  PROVE  /\ accesses' \in [Thread -> Seq(Entry)] /\ Copied'
         /\ DOMAIN accesses'[t] = DOMAIN accesses[t] \cup {Len(accesses[t]) + 1}
         /\ Len(accesses[t]) + 1 \notin DOMAIN accesses[t]
         /\ accesses'[t][Len(accesses[t]) + 1] = e
         /\ \A i \in DOMAIN accesses[t] : accesses'[t][i] = accesses[t][i]
<1> DEFINE s == accesses[t]
           n == Len(s)
<1>1. accesses \in [Thread -> Seq(Entry)] /\ s \in Seq(Entry)
  BY DEF TypeInv, TypeOK
<1>2. n \in Nat /\ DOMAIN s = 1..n
  BY <1>1, LenProperties
<1>3. accesses'[t] = Append(s, e)
  BY <1>1
<1>4. /\ Append(s, e) \in Seq(Entry) /\ Len(Append(s, e)) = n + 1
      /\ Append(s, e)[n + 1] = e
      /\ \A i \in 1..n : Append(s, e)[i] = s[i]
  BY <1>1, AppendProperties
<1>5. DOMAIN Append(s, e) = 1..(n + 1)
  BY <1>4, LenProperties
<1>6. accesses' \in [Thread -> Seq(Entry)]
  BY <1>1, <1>4
<1>7. Copied'
  <2> SUFFICES ASSUME NEW u \in Thread, NEW i \in DOMAIN accesses'[u],
                      accesses'[u][i].type = "READ_WRITE"
               PROVE  accesses'[u][i].seen \in Writer
    BY DEF Copied
  <2>1. CASE u = t
    <3>1. i \in 1..n \/ i = n + 1
      BY <1>2, <1>3, <1>5, <2>1
    <3> QED
      BY <1>2, <1>3, <1>4, <2>1, <3>1 DEF Copied, TypeInv
  <2>2. CASE u # t
    <3>1. accesses'[u] = accesses[u]
      BY <1>1, <2>2
    <3> QED
      BY <3>1 DEF Copied, TypeInv
  <2> QED
    BY <2>1, <2>2
<1> QED
  BY <1>2, <1>3, <1>4, <1>5, <1>6, <1>7

(***************************************************************************)
(* What BufferWaiter, HandOver and DrawStartTimestamp leave is well typed.  *)
(***************************************************************************)
LEMMA BufferedType ==
  ASSUME NEW queue \in Seq(Waiter), NEW entry \in Waiter
  PROVE  BufferWaiter(queue, entry) \in Seq(Waiter)
<1> DEFINE S == {i \in DOMAIN queue : entry.ts < queue[i].ts}
           n == Cardinality(S)
<1>1. Len(queue) \in Nat /\ DOMAIN queue = 1..Len(queue)
  BY LenProperties
<1>2. S \in SUBSET (1..Len(queue))
  BY <1>1
<1> HIDE DEF S
<1>3. n \in 0..Len(queue)
  <2>1. /\ IsFiniteSet(1..Len(queue))
        /\ Cardinality(1..Len(queue)) = Len(queue)
    BY <1>1, FS_Interval, SMTT(30)
  <2>2. IsFiniteSet(S) /\ n <= Len(queue)
    BY <1>2, <2>1, FS_Subset
  <2>3. n \in Nat
    BY <2>2, FS_CardinalityType
  <2> QED
    BY <1>1, <2>2, <2>3
<1>4. BufferWaiter(queue, entry) = InsertAt(queue, n + 1, entry)
  BY DEF BufferWaiter, S
<1> HIDE DEF n
<1>5. InsertAt(queue, n + 1, entry) \in Seq(Waiter)
  BY <1>3, Inserted
<1> QED
  BY <1>4, <1>5

(***************************************************************************)
(* Drawing the timestamp of the first request keeps the types of the       *)
(* clocks.                                                                 *)
(***************************************************************************)
LEMMA StartTimestampType ==
  ASSUME TypeOK, NEW t \in Thread, DrawStartTimestamp(t)
  PROVE  /\ startTs' \in [Thread -> Nat] /\ monotone' \in Nat
         /\ isFirst' \in [Thread -> BOOLEAN]
<1>1. /\ startTs \in [Thread -> Nat] /\ monotone \in Nat
      /\ isFirst \in [Thread -> BOOLEAN]
  BY DEF TypeOK
<1>2. isFirst' \in [Thread -> BOOLEAN]
  BY <1>1 DEF DrawStartTimestamp
<1>3. CASE isFirst[t]
  BY <1>1, <1>2, <1>3 DEF DrawStartTimestamp
<1>4. CASE ~isFirst[t]
  BY <1>1, <1>2, <1>4 DEF DrawStartTimestamp
<1> QED
  BY <1>3, <1>4

(***************************************************************************)
(* Handing a lock over to the head of its queue keeps the types of its     *)
(* lists.                                                                  *)
(***************************************************************************)
LEMMA HandOverType ==
  ASSUME TypeOK, NEW t \in Thread, NEW r \in Record, HandOver(t, r)
  PROVE  /\ waiters' \in [Record -> Seq(Waiter)]
         /\ owners' \in [Record -> SUBSET Nat]
         /\ lockType' \in [Record -> {"NO_LOCK", "READ_LOCK", "WRITE_LOCK"}]
         /\ ready' \in [Thread -> BOOLEAN]
<1> DEFINE queue == waiters[r]
           rest  == owners[r] \ {startTs[t]}
           n     == IF rest = {} THEN GrantCount(queue) ELSE 0
           later == SubSeq(queue, n + 1, Len(queue))
<1>1. /\ waiters \in [Record -> Seq(Waiter)] /\ queue \in Seq(Waiter)
      /\ owners \in [Record -> SUBSET Nat] /\ rest \subseteq Nat
      /\ lockType \in [Record -> {"NO_LOCK", "READ_LOCK", "WRITE_LOCK"}]
      /\ ready \in [Thread -> BOOLEAN]
  BY DEF TypeOK
<1>2. /\ owners' = [owners EXCEPT ![r] = rest \cup {queue[i].ts : i \in 1..n}]
      /\ waiters' = [waiters EXCEPT ![r] = later]
      /\ lockType' = [lockType EXCEPT ![r] =
                        IF rest # {} THEN @
                        ELSE IF n = 0 THEN "NO_LOCK" ELSE queue[n].type]
      /\ ready' = [u \in Thread |->
                     ready[u] \/ \E i \in 1..n : queue[i].thread = u]
  BY DEF HandOver
<1>3. Len(queue) \in Nat /\ \A i \in 1..Len(queue) : queue[i] \in Waiter
  BY <1>1, LenProperties, ElementOfSeq
<1>4. n \in 0..Len(queue)
  BY <1>1, <1>3, Granting
<1> HIDE DEF queue, rest, n
<1>5. \A i \in 1..n : queue[i] \in Waiter
  BY <1>3, <1>4
<1>6. {queue[i].ts : i \in 1..n} \subseteq Nat
  BY <1>5 DEF Waiter
<1>7. n # 0 => queue[n].type \in {"READ_LOCK", "WRITE_LOCK"}
  BY <1>4, <1>5 DEF Waiter
<1>8. later \in Seq(Waiter)
  <2>1. n + 1 \in Int /\ Len(queue) \in Int
        /\ \A i \in (n + 1)..Len(queue) : queue[i] \in Waiter
    BY <1>3, <1>4
  <2> QED
    BY <2>1, SubSeqProperties
<1> HIDE DEF later
<1>9. waiters' \in [Record -> Seq(Waiter)]
  BY <1>1, <1>2, <1>8
<1>10. owners' \in [Record -> SUBSET Nat]
  BY <1>1, <1>2, <1>6
<1>11. lockType' \in [Record -> {"NO_LOCK", "READ_LOCK", "WRITE_LOCK"}]
  BY <1>1, <1>2, <1>7
<1>12. ready' \in [Thread -> BOOLEAN]
  BY <1>1, <1>2
<1> QED
  BY <1>9, <1>10, <1>11, <1>12

(***************************************************************************)
(* Every step keeps the variables in their types.                          *)
(***************************************************************************)
LEMMA NextType == TypeInv /\ [Next]_vars => TypeInv'
<1> SUFFICES ASSUME TypeInv, [Next]_vars PROVE TypeInv'
  OBVIOUS
<1>0. TypeOK /\ BatchLeft /\ Copied /\ Requested
  BY DEF TypeInv
<1>a. accesses \in [Thread -> Seq(Entry)] /\ waiters \in [Record -> Seq(Waiter)]
  BY <1>0 DEF TypeOK
<1>b. ZeroTs \in Timestamp
  BY DEF ZeroTs, Timestamp
<1>c. <<>> \in Seq(Entry) /\ DOMAIN <<>> = {}
  OBVIOUS
<1>d. ASSUME NEW t \in Thread, NEW i \in DOMAIN accesses[t]
      PROVE  accesses[t][i] \in Entry
  BY <1>0, EntryType
<1>1. ASSUME NEW t \in Thread, Execute(t) PROVE TypeInv'
  BY <1>0, <1>1
     DEF TypeInv, TypeOK, BatchLeft, Copied, Requested, Execute, content, locks,
         clocks, txn
<1>2. ASSUME NEW t \in Thread, NEW r \in Fresh, InsertRecord(t, r)
      PROVE  TypeInv'
  <2> DEFINE e == [record |-> r, type |-> "INSERT_ONLY", ts |-> ZeroTs,
                   seen |-> Unread, new |-> Kept]
  <2>1. e \in Entry /\ r \in Record
    BY <1>b DEF Entry, Record
  <2>2. accesses' = [accesses EXCEPT ![t] = Append(accesses[t], e)]
    BY <1>2 DEF InsertRecord
  <2>3. accesses' \in [Thread -> Seq(Entry)] /\ Copied'
    BY <2>1, <2>2, EntryAppended
  <2>4. /\ startTs' \in [Thread -> Nat] /\ monotone' \in Nat
        /\ isFirst' \in [Thread -> BOOLEAN]
    BY <1>0, <1>2, StartTimestampType DEF InsertRecord
  <2>5. visible' \in [Record -> BOOLEAN]
    BY <1>0, <1>2 DEF TypeOK, InsertRecord
  <2>6. TypeOK' /\ BatchLeft' /\ Requested'
    BY <1>0, <1>2, <2>3, <2>4, <2>5
       DEF TypeOK, BatchLeft, Requested, InsertRecord, locks
  <2> QED
    BY <2>3, <2>6 DEF TypeInv
<1>3. ASSUME NEW t \in Thread, NEW r \in Indexed,
             NEW type \in {"READ_ONLY", "READ_WRITE"}, SelectRecordCC(t, r, type)
      PROVE  TypeInv'
  <2>1. /\ startTs' \in [Thread -> Nat] /\ monotone' \in Nat
        /\ isFirst' \in [Thread -> BOOLEAN]
    BY <1>0, <1>3, StartTimestampType DEF SelectRecordCC
  <2>2. [record |-> r, type |-> type] \in Request
    BY DEF Request
  <2>3. request' = [request EXCEPT ![t] = [record |-> r, type |-> type]]
    BY <1>3 DEF SelectRecordCC
  <2>4. request' \in [Thread -> Request \cup {NoRequest}] /\ Requested'
    BY <1>0, <1>3, <2>2, <2>3 DEF TypeOK, Requested, SelectRecordCC
  <2>5. TypeOK' /\ BatchLeft' /\ Copied'
    BY <1>0, <1>3, <2>1, <2>4
       DEF TypeOK, BatchLeft, Copied, SelectRecordCC, content, locks
  <2> QED
    BY <2>4, <2>5 DEF TypeInv
<1>4. ASSUME NEW t \in Thread, AcquireLock(t) PROVE TypeInv'
  <2> DEFINE r    == request[t].record
             type == LockTypeOf(request[t].type)
             e    == [ts |-> startTs[t], type |-> type, thread |-> t]
  <2>1. request[t] \in Request /\ pc[t] = "acquire"
    BY <1>0, <1>4 DEF AcquireLock, Requested
  <2>2. r \in Record /\ type \in {"READ_LOCK", "WRITE_LOCK"}
    BY <2>1 DEF Request, Record, LockTypeOf
  <2>3. \/ Wait(t, r, type) \/ Own(t, r, type) \/ Die(t)
    BY <1>4 DEF AcquireLock
  <2>4. /\ waiters' \in [Record -> Seq(Waiter)]
        /\ owners' \in [Record -> SUBSET Nat]
        /\ lockType' \in [Record -> {"NO_LOCK", "READ_LOCK", "WRITE_LOCK"}]
        /\ ready' \in [Thread -> BOOLEAN]
        /\ \/ pc' = [pc EXCEPT ![t] = "wait"]
           \/ pc' = [pc EXCEPT ![t] = "undo"]
    <3>1. CASE Wait(t, r, type)
      <4>1. waiters[r] \in Seq(Waiter) /\ e \in Waiter
        BY <1>0, <1>a, <2>2 DEF TypeOK, Waiter
      <4>2. BufferWaiter(waiters[r], e) \in Seq(Waiter)
        BY <4>1, BufferedType
      <4>3. waiters' \in [Record -> Seq(Waiter)]
        BY <1>a, <2>2, <3>1, <4>2 DEF Wait
      <4> QED
        BY <1>0, <3>1, <4>3 DEF Wait, TypeOK
    <3>2. CASE Own(t, r, type)
      BY <1>0, <2>2, <3>2 DEF Own, TypeOK
    <3>3. CASE Die(t)
      BY <1>0, <3>3 DEF Die, TypeOK, locks
    <3> QED
      BY <2>3, <3>1, <3>2, <3>3
  <2>5. TypeOK'
    BY <1>0, <1>4, <2>4 DEF TypeOK, AcquireLock, content, clocks, txn
  <2>6. BatchLeft' /\ Copied' /\ Requested'
    BY <1>0, <1>4, <2>1, <2>4
       DEF TypeOK, BatchLeft, Copied, Requested, AcquireLock, txn
  <2> QED
    BY <2>5, <2>6 DEF TypeInv
<1>5. ASSUME NEW t \in Thread, NewAccess(t) PROVE TypeInv'
  <2> DEFINE r == request[t].record
             e == [record |-> r, type |-> request[t].type, ts |-> ts[r],
                   new |-> Kept,
                   seen |-> IF request[t].type = "READ_WRITE" THEN word[r]
                            ELSE Unread]
  <2>1. request[t] \in Request
    BY <1>0, <1>5 DEF NewAccess, Requested
  <2>2. /\ r \in Record /\ request[t].type \in {"READ_ONLY", "READ_WRITE"}
        /\ ts[r] \in Timestamp /\ word[r] \in Writer
    BY <1>0, <2>1 DEF Request, Record, TypeOK
  <2>3. e \in Entry /\ (e.type = "READ_WRITE" => e.seen \in Writer)
    BY <2>2 DEF Entry
  <2>4. accesses' = [accesses EXCEPT ![t] = Append(accesses[t], e)]
    BY <1>5 DEF NewAccess
  <2>5. accesses' \in [Thread -> Seq(Entry)] /\ Copied'
    BY <2>3, <2>4, EntryAppended
  <2>6. TypeOK' /\ BatchLeft' /\ Requested'
    BY <1>0, <1>5, <2>5
       DEF TypeOK, BatchLeft, Requested, NewAccess, content, locks, clocks
  <2> QED
    BY <2>5, <2>6 DEF TypeInv
<1>6. ASSUME NEW t \in Thread, ReadRecord(t) PROVE TypeInv'
  <2>1. PICK i \in DOMAIN accesses[t] :
          /\ accesses[t][i].type = "READ_ONLY"
          /\ accesses' = [accesses EXCEPT ![t][i].seen =
                            word[accesses[t][i].record]]
    BY <1>6 DEF ReadRecord
  <2> DEFINE e == [accesses[t][i] EXCEPT !.seen = word[accesses[t][i].record]]
  <2>2. accesses[t][i] \in Entry
    BY <1>d
  <2>3. word[accesses[t][i].record] \in Writer
    BY <1>0, <2>2 DEF Entry, TypeOK
  <2>4. e \in Entry /\ e.type = accesses[t][i].type
    BY <2>2, <2>3 DEF Entry
  <2>5. accesses' = [accesses EXCEPT ![t] = [accesses[t] EXCEPT ![i] = e]]
    BY <2>1
  <2>6. accesses' \in [Thread -> Seq(Entry)] /\ Copied'
    BY <2>1, <2>4, <2>5, EntryChanged
  <2>7. TypeOK' /\ BatchLeft' /\ Requested'
    BY <1>0, <1>6, <2>6
       DEF TypeOK, BatchLeft, Requested, ReadRecord, content, locks, clocks
  <2> QED
    BY <2>6, <2>7 DEF TypeInv
<1>7. ASSUME NEW t \in Thread, UpdateRecord(t) PROVE TypeInv'
  <2>1. PICK i \in DOMAIN accesses[t] :
          /\ accesses[t][i].type = "READ_WRITE"
          /\ accesses' = [accesses EXCEPT ![t][i].new = Name(t)]
          /\ word' = [word EXCEPT ![accesses[t][i].record] = Name(t)]
    BY <1>7 DEF UpdateRecord
  <2> DEFINE e == [accesses[t][i] EXCEPT !.new = Name(t)]
  <2>2. accesses[t][i] \in Entry
    BY <1>d
  <2>3. Name(t) \in Writer
    BY <1>0 DEF Name, Writer, TypeOK
  <2>4. /\ e \in Entry /\ e.type = accesses[t][i].type
        /\ e.seen = accesses[t][i].seen
    BY <2>2, <2>3 DEF Entry
  <2>5. accesses' = [accesses EXCEPT ![t] = [accesses[t] EXCEPT ![i] = e]]
    BY <2>1
  <2>6. e.type = "READ_WRITE" => e.seen \in Writer
    BY <1>0, <2>4 DEF Copied
  <2>7. accesses' \in [Thread -> Seq(Entry)] /\ Copied'
    BY <2>4, <2>5, <2>6, EntryChanged
  <2>8. word' \in [Record -> Writer]
    BY <1>0, <2>1, <2>3 DEF TypeOK
  <2>9. TypeOK' /\ BatchLeft' /\ Requested'
    BY <1>0, <1>7, <2>7, <2>8
       DEF TypeOK, BatchLeft, Requested, UpdateRecord, locks, clocks
  <2> QED
    BY <2>7, <2>9 DEF TypeInv
<1>8. ASSUME NEW t \in Thread, CommitTransaction(t) PROVE TypeInv'
  BY <1>0, <1>8
     DEF TypeInv, TypeOK, BatchLeft, Copied, Requested, CommitTransaction,
         content, locks, clocks
<1>9. ASSUME NEW t \in Thread, GetMonotoneTimestamp(t) PROVE TypeInv'
  <2>1. monotone % TsSpan \in Nat
    BY <1>0, LockWaitConstants DEF LockWaitConstants, TypeOK
  <2>2. GenerateMonotoneTimestamp(currEpoch[t], monotone) \in Timestamp
    BY <1>0, <2>1 DEF GenerateMonotoneTimestamp, Timestamp, TypeOK
  <2> QED
    BY <1>0, <1>9, <2>2
       DEF TypeInv, TypeOK, BatchLeft, Copied, Requested, GetMonotoneTimestamp,
           content, locks
<1>10. ASSUME NEW t \in Thread, SetTimestamp(t) PROVE TypeInv'
  <2>1. ts' \in [Record -> Timestamp]
    BY <1>0, <1>10 DEF TypeOK, SetTimestamp
  <2>2. finished' \in [Thread -> Nat]
    BY <1>0, <1>10 DEF TypeOK, SetTimestamp
  <2>3. TypeOK'
    BY <1>0, <1>10, <2>1, <2>2 DEF TypeOK, SetTimestamp, locks, clocks
  <2>4. BatchLeft' /\ Copied' /\ Requested'
    BY <1>0, <1>10 DEF BatchLeft, Copied, Requested, SetTimestamp
  <2> QED
    BY <2>3, <2>4 DEF TypeInv
<1>11. ASSUME NEW t \in Thread, EndStamp(t) PROVE TypeInv'
  BY <1>0, <1>11
     DEF TypeInv, TypeOK, BatchLeft, Copied, Requested, EndStamp, content,
         locks, clocks
<1>12. ASSUME NEW t \in Thread, Restore(t) PROVE TypeInv'
  <2>1. finished[t] + 1 \in DOMAIN accesses[t]
    BY <1>0, <1>12, LenProperties DEF Restore, TypeOK
  <2>2. Current(t).type = "READ_WRITE" => Current(t).seen \in Writer
    BY <1>0, <2>1 DEF Copied, Current
  <2>3. word' \in [Record -> Writer] /\ visible' \in [Record -> BOOLEAN]
    BY <1>0, <1>12, <2>2 DEF Restore, TypeOK
  <2> QED
    BY <1>0, <1>12, <2>3
       DEF TypeInv, TypeOK, BatchLeft, Copied, Requested, Restore, locks, clocks
<1>13. ASSUME NEW t \in Thread, ReleaseLock(t) PROVE TypeInv'
  <2>1. finished[t] + 1 \in DOMAIN accesses[t] /\ Current(t).record \in Record
    <3>1. finished[t] + 1 \in DOMAIN accesses[t]
      BY <1>0, <1>13, LenProperties DEF ReleaseLock, TypeOK
    <3> QED
      BY <1>d, <3>1 DEF Current, Entry
  <2>2. /\ waiters' \in [Record -> Seq(Waiter)]
        /\ owners' \in [Record -> SUBSET Nat]
        /\ lockType' \in [Record -> {"NO_LOCK", "READ_LOCK", "WRITE_LOCK"}]
        /\ ready' \in [Thread -> BOOLEAN]
    <3>1. CASE Current(t).type = "INSERT_ONLY"
      BY <1>0, <1>13, <3>1 DEF ReleaseLock, TypeOK, locks
    <3>2. CASE Current(t).type # "INSERT_ONLY"
      BY <1>0, <1>13, <2>1, <3>2, HandOverType DEF ReleaseLock
    <3> QED
      BY <3>1, <3>2
  <2>3. finished' \in [Thread -> Nat] /\ restored' \in [Thread -> BOOLEAN]
    BY <1>0, <1>13 DEF TypeOK, ReleaseLock
  <2>4. TypeOK'
    BY <1>0, <1>13, <2>2, <2>3 DEF TypeOK, ReleaseLock, content, clocks
  <2>5. BatchLeft' /\ Copied' /\ Requested'
    BY <1>0, <1>13 DEF BatchLeft, Copied, Requested, ReleaseLock
  <2> QED
    BY <2>4, <2>5 DEF TypeInv
<1>14. ASSUME NEW t \in Thread, ReturnCommitted(t) PROVE TypeInv'
  <2>1. left[t] \in 1..Batch
    BY <1>0, <1>14, LockWaitConstants
       DEF LockWaitConstants, ReturnCommitted, BatchLeft, TypeOK
  <2>2. left' \in [Thread -> 0..Batch] /\ BatchLeft'
    BY <1>0, <1>14, <2>1, LockWaitConstants
       DEF LockWaitConstants, ReturnCommitted, BatchLeft, TypeOK, LastOfBatch
  <2>3. isFinish' \in BOOLEAN
    BY <1>14 DEF ReturnCommitted
  <2>4. TypeOK'
    BY <1>0, <1>14, <1>b, <1>c, <2>2, <2>3
       DEF TypeOK, ReturnCommitted, ClearAccess, content, locks
  <2>5. Copied' /\ Requested'
    BY <1>0, <1>14, <1>a, <1>c
       DEF TypeOK, Copied, Requested, ReturnCommitted, ClearAccess
  <2> QED
    BY <2>2, <2>4, <2>5 DEF TypeInv
<1>15. ASSUME NEW t \in Thread, ReturnAborted(t) PROVE TypeInv'
  <2>1. TypeOK'
    BY <1>0, <1>15, <1>b, <1>c
       DEF TypeOK, ReturnAborted, ClearAccess, content, locks, clocks
  <2>2. BatchLeft' /\ Copied' /\ Requested'
    BY <1>0, <1>15, <1>a, <1>c
       DEF TypeOK, BatchLeft, Copied, Requested, ReturnAborted, ClearAccess
  <2> QED
    BY <2>1, <2>2 DEF TypeInv
<1>16. CASE AdvanceEpoch
  BY <1>0, <1>16
     DEF TypeInv, TypeOK, BatchLeft, Copied, Requested, AdvanceEpoch, content,
         locks, txn
<1>17. CASE UNCHANGED vars
  BY <1>0, <1>17
     DEF TypeInv, TypeOK, BatchLeft, Copied, Requested, vars, content, locks,
         clocks, txn
<1> QED
  BY <1>1, <1>2, <1>3, <1>4, <1>5, <1>6, <1>7, <1>8, <1>9, <1>10, <1>11, <1>12,
     <1>13, <1>14, <1>15, <1>16, <1>17, LockWaitConstants
     DEF LockWaitConstants, Next, Step, Select, Joined

(***************************************************************************)
(* All variables keep their types (TypeOK), whatever the threads do.       *)
(***************************************************************************)
THEOREM TypeCorrect == Spec => []TypeOK
<1>1. TypeInv => TypeOK
  BY DEF TypeInv
<1> QED
  BY <1>1, InitType, NextType, PTL DEF Spec

-----------------------------------------------------------------------------
(***************************************************************************)
(* The transactions of the threads.  A start timestamp belongs to one      *)
(* transaction; a record is accessed once; what has not been stamped,      *)
(* undone or released is counted by finished.                              *)
(***************************************************************************)
StartTsDistinct ==
  /\ \A t \in Thread : ~isFirst[t] => startTs[t] < monotone
  /\ \A t, u \in Thread :
       t # u /\ ~isFirst[t] /\ ~isFirst[u] => startTs[t] # startTs[u]

AccessedOnce ==
  \A t \in Thread : \A i, j \in DOMAIN accesses[t] :
    accesses[t][i].record = accesses[t][j].record => i = j

RequestedOnce ==
  \A t \in Thread : pc[t] \in {"acquire", "wait"} =>
    /\ ~isFirst[t]
    /\ \A i \in DOMAIN accesses[t] : accesses[t][i].record # request[t].record

EntriesDrawn == \A t \in Thread : DOMAIN accesses[t] # {} => ~isFirst[t]

FinishedLater ==
  \A t \in Thread : pc[t] \notin {"stamp", "release", "undo"} => finished[t] = 0

TxnInv ==
  /\ TypeInv /\ StartTsDistinct /\ AccessedOnce /\ RequestedOnce
  /\ EntriesDrawn /\ FinishedLater

(***************************************************************************)
(* Initially no transaction has drawn a timestamp or asked for a lock.     *)
(***************************************************************************)
LEMMA InitTxn == Init => TxnInv
<1> SUFFICES ASSUME Init PROVE TxnInv
  OBVIOUS
<1>1. TypeInv
  BY InitType
<1>2. \A t \in Thread : DOMAIN accesses[t] = {}
  BY DEF Init
<1> QED
  BY <1>1, <1>2
     DEF Init, TxnInv, StartTsDistinct, AccessedOnce, RequestedOnce,
         EntriesDrawn, FinishedLater

(***************************************************************************)
(* Drawing a start timestamp keeps those of the others apart from it.      *)
(***************************************************************************)
LEMMA StartTimestampDrawn ==
  ASSUME TypeOK, StartTsDistinct, NEW t \in Thread, DrawStartTimestamp(t)
  PROVE  /\ StartTsDistinct' /\ ~isFirst'[t]
         /\ \A u \in Thread : ~isFirst[u] => /\ ~isFirst'[u]
                                            /\ startTs'[u] = startTs[u]
         /\ \A u \in Thread : u # t => isFirst'[u] = isFirst[u]
<1>1. /\ startTs \in [Thread -> Nat] /\ isFirst \in [Thread -> BOOLEAN]
      /\ monotone \in Nat
  BY DEF TypeOK
<1>2. isFirst' = [isFirst EXCEPT ![t] = FALSE]
  BY DEF DrawStartTimestamp
<1>3. CASE isFirst[t]
  <2>1. startTs' = [startTs EXCEPT ![t] = monotone] /\ monotone' = monotone + 1
    BY <1>3 DEF DrawStartTimestamp
  <2> QED
    BY <1>1, <1>2, <1>3, <2>1 DEF StartTsDistinct
<1>4. CASE ~isFirst[t]
  <2>1. startTs' = startTs /\ monotone' = monotone
    BY <1>4 DEF DrawStartTimestamp
  <2> QED
    BY <1>1, <1>2, <1>4, <2>1 DEF StartTsDistinct
<1> QED
  BY <1>3, <1>4

(***************************************************************************)
(* Reading and updating a record leaves the kinds of the entries alone.    *)
(***************************************************************************)
LEMMA RecordsKept ==
  ASSUME TypeOK, NEW t \in Thread, ReadRecord(t) \/ UpdateRecord(t)
  PROVE  /\ \A u \in Thread : DOMAIN accesses'[u] = DOMAIN accesses[u]
         /\ \A u \in Thread : \A i \in DOMAIN accesses[u] :
              /\ accesses'[u][i].record = accesses[u][i].record
              /\ accesses'[u][i].type = accesses[u][i].type
              /\ accesses'[u][i].ts = accesses[u][i].ts
<1>1. accesses \in [Thread -> Seq(Entry)]
  BY DEF TypeOK
<1>2. ASSUME NEW i \in DOMAIN accesses[t] PROVE accesses[t][i] \in Entry
  BY EntryType
<1>3. CASE ReadRecord(t)
  <2>1. PICK i \in DOMAIN accesses[t] :
          accesses' = [accesses EXCEPT ![t][i].seen =
                        word[accesses[t][i].record]]
    BY <1>3 DEF ReadRecord
  <2> DEFINE e == [accesses[t][i] EXCEPT !.seen = word[accesses[t][i].record]]
  <2>2. /\ e.record = accesses[t][i].record /\ e.type = accesses[t][i].type
        /\ e.ts = accesses[t][i].ts
    BY <1>2 DEF Entry
  <2>3. accesses' = [accesses EXCEPT ![t] = [accesses[t] EXCEPT ![i] = e]]
    BY <2>1
  <2> HIDE DEF e
  <2> QED
    BY <1>1, <2>2, <2>3
<1>4. CASE UpdateRecord(t)
  <2>1. PICK i \in DOMAIN accesses[t] :
          accesses' = [accesses EXCEPT ![t][i].new = Name(t)]
    BY <1>4 DEF UpdateRecord
  <2> DEFINE e == [accesses[t][i] EXCEPT !.new = Name(t)]
  <2>2. /\ e.record = accesses[t][i].record /\ e.type = accesses[t][i].type
        /\ e.ts = accesses[t][i].ts
    BY <1>2 DEF Entry
  <2>3. accesses' = [accesses EXCEPT ![t] = [accesses[t] EXCEPT ![i] = e]]
    BY <2>1
  <2> HIDE DEF e
  <2> QED
    BY <1>1, <2>2, <2>3
<1> QED
  BY <1>3, <1>4

(***************************************************************************)
(* Every step keeps start timestamps distinct, and every record at most    *)
(* once among the entries and the request of a transaction.                *)
(***************************************************************************)
LEMMA NextTxn == TxnInv /\ [Next]_vars => TxnInv'
<1> SUFFICES ASSUME TxnInv, [Next]_vars PROVE TxnInv'
  OBVIOUS
<1>a. /\ TypeInv /\ TypeOK /\ StartTsDistinct /\ AccessedOnce /\ RequestedOnce
      /\ EntriesDrawn /\ FinishedLater
  BY DEF TxnInv, TypeInv
<1>b. TypeInv'
  BY <1>a, NextType
<1>c. /\ accesses \in [Thread -> Seq(Entry)] /\ finished \in [Thread -> Nat]
      /\ startTs \in [Thread -> Nat] /\ isFirst \in [Thread -> BOOLEAN]
      /\ monotone \in Nat /\ request \in [Thread -> Request \cup {NoRequest}]
      /\ pc \in [Thread -> {"idle", "exec", "acquire", "wait", "timestamp",
                            "stamp", "release", "undo", "done"}]
  BY <1>a DEF TypeOK
<1>d. DOMAIN <<>> = {}
  OBVIOUS
<1> DEFINE Rest == AccessedOnce' /\ RequestedOnce' /\ EntriesDrawn'
                   /\ FinishedLater'
<1>1. ASSUME NEW t \in Thread, Execute(t) PROVE StartTsDistinct' /\ Rest
  BY <1>a, <1>c, <1>1
     DEF StartTsDistinct, AccessedOnce, RequestedOnce, EntriesDrawn,
         FinishedLater, Execute, clocks, txn
<1>2. ASSUME NEW t \in Thread, NEW r \in Fresh, InsertRecord(t, r)
      PROVE  StartTsDistinct' /\ Rest
  <2> DEFINE e == [record |-> r, type |-> "INSERT_ONLY", ts |-> ZeroTs,
                   seen |-> Unread, new |-> Kept]
             n == Len(accesses[t]) + 1
  <2>1. e \in Entry
    BY DEF Entry, Record, ZeroTs, Timestamp
  <2>2. /\ DOMAIN accesses'[t] = DOMAIN accesses[t] \cup {n}
        /\ n \notin DOMAIN accesses[t] /\ accesses'[t][n] = e
        /\ \A i \in DOMAIN accesses[t] : accesses'[t][i] = accesses[t][i]
    BY <1>a, <1>2, <2>1, EntryAppended DEF InsertRecord
  <2>3. \A u \in Thread : u # t => accesses'[u] = accesses[u]
    BY <1>c, <1>2 DEF InsertRecord
  <2>4. \A i \in DOMAIN accesses[t] : accesses[t][i].record # r
    BY <1>2 DEF InsertRecord, Accessed, Entries
  <2>5. e.record = r
    OBVIOUS
  <2> HIDE DEF n, e
  <2>6. /\ StartTsDistinct' /\ ~isFirst'[t]
        /\ \A u \in Thread : ~isFirst[u] => ~isFirst'[u]
    BY <1>a, <1>2, StartTimestampDrawn DEF InsertRecord
  <2>7. AccessedOnce'
    BY <1>a, <2>2, <2>3, <2>4, <2>5 DEF AccessedOnce
  <2>8. pc' = pc /\ finished' = finished /\ request' = request /\ pc[t] = "exec"
    BY <1>2 DEF InsertRecord
  <2>9. RequestedOnce'
    BY <1>a, <2>3, <2>6, <2>8 DEF RequestedOnce
  <2>10. EntriesDrawn' /\ FinishedLater'
    BY <1>a, <2>3, <2>6, <2>8 DEF EntriesDrawn, FinishedLater
  <2> QED
    BY <2>6, <2>7, <2>9, <2>10
<1>3. ASSUME NEW t \in Thread, NEW r \in Indexed,
             NEW type \in {"READ_ONLY", "READ_WRITE"}, SelectRecordCC(t, r, type)
      PROVE  StartTsDistinct' /\ Rest
  <2>1. /\ StartTsDistinct' /\ ~isFirst'[t]
        /\ \A u \in Thread : ~isFirst[u] => ~isFirst'[u]
    BY <1>a, <1>3, StartTimestampDrawn DEF SelectRecordCC
  <2>2. \A i \in DOMAIN accesses[t] : accesses[t][i].record # r
    BY <1>3 DEF SelectRecordCC, Accessed, Entries
  <2>3. /\ request' = [request EXCEPT ![t] = [record |-> r, type |-> type]]
        /\ pc' = [pc EXCEPT ![t] = "acquire"] /\ pc[t] = "exec"
        /\ accesses' = accesses /\ finished' = finished
    BY <1>3 DEF SelectRecordCC
  <2>4. RequestedOnce'
    BY <1>a, <1>c, <2>1, <2>2, <2>3 DEF RequestedOnce
  <2> QED
    BY <1>a, <1>c, <2>1, <2>3, <2>4
       DEF AccessedOnce, EntriesDrawn, FinishedLater
<1>4. ASSUME NEW t \in Thread, AcquireLock(t) PROVE StartTsDistinct' /\ Rest
  <2>1. /\ \/ pc' = [pc EXCEPT ![t] = "wait"]
           \/ pc' = [pc EXCEPT ![t] = "undo"]
        /\ pc[t] = "acquire"
    BY <1>4 DEF AcquireLock, Wait, Own, Die
  <2>2. UNCHANGED <<monotone, isFirst, startTs, request, accesses, finished>>
    BY <1>4 DEF AcquireLock, clocks, txn
  <2> QED
    BY <1>a, <1>c, <2>1, <2>2, ZenonT(30)
       DEF StartTsDistinct, AccessedOnce, RequestedOnce, EntriesDrawn,
           FinishedLater
<1>5. ASSUME NEW t \in Thread, NewAccess(t) PROVE StartTsDistinct' /\ Rest
  <2> DEFINE r == request[t].record
             e == [record |-> r, type |-> request[t].type, ts |-> ts[r],
                   new |-> Kept,
                   seen |-> IF request[t].type = "READ_WRITE" THEN word[r]
                            ELSE Unread]
             n == Len(accesses[t]) + 1
  <2>1. request[t] \in Request
    BY <1>a, <1>5 DEF NewAccess, Requested, TypeInv
  <2>2. /\ r \in Record /\ request[t].type \in {"READ_ONLY", "READ_WRITE"}
        /\ ts[r] \in Timestamp /\ word[r] \in Writer
    BY <1>a, <2>1 DEF Request, Record, TypeOK
  <2>3. e \in Entry /\ (e.type = "READ_WRITE" => e.seen \in Writer)
    BY <2>2 DEF Entry
  <2>4. accesses' = [accesses EXCEPT ![t] = Append(accesses[t], e)]
    BY <1>5 DEF NewAccess
  <2>5. e.record = r
    OBVIOUS
  <2> HIDE DEF e, n
  <2>6. /\ DOMAIN accesses'[t] = DOMAIN accesses[t] \cup {n}
        /\ n \notin DOMAIN accesses[t] /\ accesses'[t][n] = e
        /\ \A i \in DOMAIN accesses[t] : accesses'[t][i] = accesses[t][i]
    BY <1>a, <2>3, <2>4, EntryAppended DEF n
  <2>7. \A u \in Thread : u # t => accesses'[u] = accesses[u]
    BY <1>c, <2>4
  <2>8. /\ pc' = [pc EXCEPT ![t] = "exec"] /\ pc[t] = "wait"
        /\ request' = [request EXCEPT ![t] = NoRequest]
        /\ UNCHANGED <<monotone, isFirst, startTs, finished>>
    BY <1>5 DEF NewAccess, clocks
  <2>9. ~isFirst[t] /\ \A i \in DOMAIN accesses[t] : accesses[t][i].record # r
    BY <1>a, <2>8 DEF RequestedOnce
  <2>10. AccessedOnce'
    BY <1>a, <2>5, <2>6, <2>7, <2>9 DEF AccessedOnce
  <2>11. RequestedOnce' /\ EntriesDrawn'
    BY <1>a, <1>c, <2>7, <2>8, <2>9, ZenonT(30) DEF RequestedOnce, EntriesDrawn
  <2>12. StartTsDistinct' /\ FinishedLater'
    BY <1>a, <1>c, <2>8 DEF StartTsDistinct, FinishedLater
  <2> QED
    BY <2>10, <2>11, <2>12
<1>6. ASSUME NEW t \in Thread, ReadRecord(t) \/ UpdateRecord(t)
      PROVE  StartTsDistinct' /\ Rest
  <2>1. /\ \A u \in Thread : DOMAIN accesses'[u] = DOMAIN accesses[u]
        /\ \A u \in Thread : \A i \in DOMAIN accesses[u] :
             accesses'[u][i].record = accesses[u][i].record
    BY <1>a, <1>6, RecordsKept
  <2>2. UNCHANGED <<monotone, pc, isFirst, startTs, request, finished>>
    BY <1>6 DEF ReadRecord, UpdateRecord, clocks
  <2> QED
    BY <1>a, <2>1, <2>2
       DEF StartTsDistinct, AccessedOnce, RequestedOnce, EntriesDrawn,
           FinishedLater
<1>7. ASSUME NEW t \in Thread,
             \/ CommitTransaction(t) \/ GetMonotoneTimestamp(t)
             \/ SetTimestamp(t) \/ EndStamp(t) \/ Restore(t) \/ ReleaseLock(t)
      PROVE  StartTsDistinct' /\ Rest
  <2>1. /\ monotone' \in {monotone, monotone + 1}
        /\ UNCHANGED <<isFirst, startTs, request, accesses>>
    BY <1>7
       DEF CommitTransaction, GetMonotoneTimestamp, SetTimestamp, EndStamp,
           Restore, ReleaseLock, clocks
  <2>2. StartTsDistinct' /\ AccessedOnce' /\ EntriesDrawn'
    BY <1>a, <1>c, <2>1 DEF StartTsDistinct, AccessedOnce, EntriesDrawn
  <2>3. /\ \A u \in Thread : pc'[u] \in {"acquire", "wait"} => pc'[u] = pc[u]
        /\ FinishedLater'
    BY <1>a, <1>c, <1>7
       DEF FinishedLater, CommitTransaction, GetMonotoneTimestamp, SetTimestamp,
           EndStamp, Restore, ReleaseLock
  <2>4. RequestedOnce'
    BY <1>a, <2>1, <2>3 DEF RequestedOnce
  <2> QED
    BY <2>2, <2>3, <2>4
<1>8. ASSUME NEW t \in Thread, ReturnCommitted(t) \/ ReturnAborted(t)
      PROVE  StartTsDistinct' /\ Rest
  <2>1. /\ \A u \in Thread : ~isFirst'[u] => ~isFirst[u]
        /\ \A u \in Thread : u # t => isFirst'[u] = isFirst[u]
        /\ UNCHANGED <<monotone, startTs>>
    BY <1>c, <1>8 DEF ReturnCommitted, ReturnAborted, clocks
  <2>2. /\ accesses'[t] = <<>> /\ finished'[t] = 0
        /\ \A u \in Thread : u # t => /\ accesses'[u] = accesses[u]
                                     /\ finished'[u] = finished[u]
                                     /\ request'[u] = request[u]
    BY <1>c, <1>8 DEF ReturnCommitted, ReturnAborted, ClearAccess
  <2>3. /\ pc'[t] \in {"idle", "done"}
        /\ \A u \in Thread : u # t => pc'[u] = pc[u]
    BY <1>c, <1>8 DEF ReturnCommitted, ReturnAborted
  <2>4. StartTsDistinct'
    BY <1>a, <2>1 DEF StartTsDistinct
  <2>5. AccessedOnce' /\ EntriesDrawn'
    BY <1>a, <1>d, <2>1, <2>2 DEF AccessedOnce, EntriesDrawn
  <2>6. RequestedOnce' /\ FinishedLater'
    BY <1>a, <2>1, <2>2, <2>3 DEF RequestedOnce, FinishedLater
  <2> QED
    BY <2>4, <2>5, <2>6
<1>9. ASSUME AdvanceEpoch \/ UNCHANGED vars PROVE StartTsDistinct' /\ Rest
  <2>1. UNCHANGED <<monotone, pc, isFirst, startTs, request, accesses, finished>>
    BY <1>9 DEF AdvanceEpoch, vars, clocks, txn
  <2>2. StartTsDistinct' /\ AccessedOnce' /\ EntriesDrawn'
    BY <1>a, <2>1 DEF StartTsDistinct, AccessedOnce, EntriesDrawn
  <2>3. RequestedOnce' /\ FinishedLater'
    BY <1>a, <2>1 DEF RequestedOnce, FinishedLater
  <2> QED
    BY <2>2, <2>3
<1>10. Rest => AccessedOnce' /\ RequestedOnce' /\ EntriesDrawn' /\ FinishedLater'
  OBVIOUS
<1> HIDE DEF Rest
<1>11. StartTsDistinct' /\ Rest
  BY <1>1, <1>2, <1>3, <1>4, <1>5, <1>6, <1>7, <1>8, <1>9, LockWaitConstants
     DEF LockWaitConstants, Next, Step, Select, Joined
<1> QED
  BY <1>b, <1>10, <1>11 DEF TxnInv
-----------------------------------------------------------------------------
(***************************************************************************)
(* The lists of owners and waiters of wait-die locking: they are the       *)
(* transactions that hold and await the lock, and whoever waits is older   *)
(* than everyone it waits for, for every number of threads and records.    *)
(***************************************************************************)

(***************************************************************************)
(* A transaction holds a lock from the moment it is made an owner, be it   *)
(* by itself or by the thread that releases the lock, until it releases    *)
(* it.                                                                     *)
(***************************************************************************)
HoldsAs(t, r, type) ==
  \/ \E i \in DOMAIN accesses[t] :
       /\ accesses[t][i].record = r /\ accesses[t][i].type = type
       /\ pc[t] \in {"release", "undo"} => finished[t] < i
  \/ /\ pc[t] = "wait" /\ ready[t]
     /\ request[t].record = r /\ request[t].type = type

Holds(t, r) == HoldsAs(t, r, "READ_ONLY") \/ HoldsAs(t, r, "READ_WRITE")

Waits(t, r) == pc[t] = "wait" /\ ~ready[t] /\ request[t].record = r

Holders(r) == {t \in Thread : Holds(t, r)}

(***************************************************************************)
(* The lists of r agree with these, and are ordered by age.                *)
(***************************************************************************)
OwnersAgree(r) == owners[r] = {startTs[t] : t \in Holders(r)}

Queued(w, r) ==
  /\ w.thread \in Thread /\ Waits(w.thread, r)
  /\ w.ts = startTs[w.thread] /\ w.type = LockTypeOf(request[w.thread].type)

QueueAgrees(r) ==
  /\ \A i \in DOMAIN waiters[r] : Queued(waiters[r][i], r)
  /\ \A t \in Thread : Waits(t, r) =>
       \E i \in DOMAIN waiters[r] : waiters[r][i].thread = t

ModeAgrees(r) ==
  /\ lockType[r] = "NO_LOCK" <=> Holders(r) = {}
  /\ \A t \in Thread : HoldsAs(t, r, "READ_WRITE") =>
       lockType[r] = "WRITE_LOCK" /\ Holders(r) = {t}
  /\ \A t \in Thread : HoldsAs(t, r, "READ_ONLY") => lockType[r] = "READ_LOCK"

RecordLists(r) ==
  OwnersAgree(r) /\ QueueAgrees(r) /\ ModeAgrees(r) /\ WaitersAreOldest(r)

ListInv == TxnInv /\ \A r \in Record : RecordLists(r)

(***************************************************************************)
(* Nobody is a party to any lock before the first call to AcquireLock.     *)
(***************************************************************************)
LEMMA InitLists == Init => ListInv
<1> SUFFICES ASSUME Init PROVE ListInv
  OBVIOUS
<1>1. TxnInv
  BY InitTxn
<1>2. \A t \in Thread : DOMAIN accesses[t] = {} /\ pc[t] = "idle"
  BY DEF Init
<1>3. ASSUME NEW r \in Record PROVE RecordLists(r)
  <2>1. \A t \in Thread : /\ ~Waits(t, r)
                          /\ ~HoldsAs(t, r, "READ_ONLY")
                          /\ ~HoldsAs(t, r, "READ_WRITE")
    BY <1>2 DEF Waits, HoldsAs
  <2>2. Holders(r) = {}
    BY <2>1 DEF Holders, Holds
  <2>3. owners[r] = {} /\ DOMAIN waiters[r] = {} /\ lockType[r] = "NO_LOCK"
    BY DEF Init
  <2> QED
    BY <2>1, <2>2, <2>3
       DEF RecordLists, OwnersAgree, QueueAgrees, ModeAgrees, WaitersAreOldest
<1> QED
  BY <1>1, <1>3 DEF ListInv

(***************************************************************************)
(* A record whose lists do not change, and whose holders and waiters       *)
(* neither.                                                                *)
(***************************************************************************)
SameParties(r) ==
  \A t \in Thread :
    /\ HoldsAs(t, r, "READ_ONLY")' = HoldsAs(t, r, "READ_ONLY")
    /\ HoldsAs(t, r, "READ_WRITE")' = HoldsAs(t, r, "READ_WRITE")
    /\ Waits(t, r)' = Waits(t, r)
    /\ Holds(t, r) \/ Waits(t, r) => startTs'[t] = startTs[t]
    /\ Waits(t, r) => request'[t] = request[t]

(***************************************************************************)
(* A lock whose parties keep their parts and whose lists are left alone    *)
(* keeps its agreement.                                                    *)
(***************************************************************************)
LEMMA RecordFrame ==
  ASSUME NEW r \in Record, RecordLists(r), SameParties(r),
         owners'[r] = owners[r], waiters'[r] = waiters[r],
         lockType'[r] = lockType[r]
  PROVE  RecordLists(r)'
<1>1. \A t \in Thread : Holds(t, r)' = Holds(t, r)
  BY DEF SameParties, Holds
<1>2. Holders(r)' = Holders(r)
  BY <1>1 DEF Holders
<1>3. \A t \in Holders(r) : startTs'[t] = startTs[t]
  BY DEF Holders, SameParties
<1>4. OwnersAgree(r)'
  BY <1>2, <1>3 DEF RecordLists, OwnersAgree
<1>5. QueueAgrees(r)'
  BY DEF RecordLists, QueueAgrees, Queued, SameParties
<1>6. ModeAgrees(r)'
  BY <1>2 DEF RecordLists, ModeAgrees, SameParties
<1>7. WaitersAreOldest(r)'
  BY DEF RecordLists, WaitersAreOldest
<1> QED
  BY <1>4, <1>5, <1>6, <1>7 DEF RecordLists

(***************************************************************************)
(* Who holds or awaits a lock has drawn a start timestamp, which nobody    *)
(* else has, and no thread does both.                                      *)
(***************************************************************************)
LEMMA Parties ==
  ASSUME TxnInv, NEW r \in Record, NEW t \in Thread, Holds(t, r) \/ Waits(t, r)
  PROVE  /\ ~isFirst[t] /\ startTs[t] \in Nat
         /\ ~(Holds(t, r) /\ Waits(t, r))
         /\ \A u \in Thread :
              (Holds(u, r) \/ Waits(u, r)) /\ startTs[u] = startTs[t] => u = t
<1>1. /\ TypeOK /\ StartTsDistinct /\ RequestedOnce /\ EntriesDrawn
      /\ startTs \in [Thread -> Nat]
  BY DEF TxnInv, TypeInv, TypeOK
<1>2. ASSUME NEW u \in Thread, Holds(u, r) \/ Waits(u, r) PROVE ~isFirst[u]
  BY <1>1, <1>2 DEF Holds, HoldsAs, Waits, EntriesDrawn, RequestedOnce
<1>3. ~(Holds(t, r) /\ Waits(t, r))
  BY <1>1 DEF Holds, HoldsAs, Waits, RequestedOnce
<1> QED
  BY <1>1, <1>2, <1>3 DEF StartTsDistinct

(***************************************************************************)
(* Whoever asks for a lock neither holds nor awaits it.                    *)
(***************************************************************************)
LEMMA Asking ==
  ASSUME TxnInv, NEW t \in Thread, pc[t] = "acquire", NEW r \in Record,
         r = request[t].record
  PROVE  /\ ~Holds(t, r) /\ \A q \in Record : ~Waits(t, q)
         /\ \A u \in Thread : Holds(u, r) \/ Waits(u, r) =>
              u # t /\ startTs[u] # startTs[t]
<1>1. StartTsDistinct /\ RequestedOnce
  BY DEF TxnInv
<1>2. ~isFirst[t]
  BY <1>1 DEF RequestedOnce
<1>3. ~Holds(t, r) /\ \A q \in Record : ~Waits(t, q)
  BY <1>1 DEF Holds, HoldsAs, Waits, RequestedOnce
<1>4. \A u \in Thread : Holds(u, r) \/ Waits(u, r) => ~isFirst[u]
  BY Parties
<1> QED
  BY <1>1, <1>2, <1>3, <1>4 DEF StartTsDistinct

(***************************************************************************)
(* AcquireLock puts the transaction into the queue: it is older than every *)
(* owner, either by the comparison or because it is older than the waiter  *)
(* at the head.                                                            *)
(***************************************************************************)
LEMMA LockAwaited ==
  ASSUME ListInv, NEW t \in Thread, AcquireLock(t),
         NEW r \in Record, r = request[t].record,
         NEW type, type = LockTypeOf(request[t].type), Wait(t, r, type),
         \/ CanWait(t, r) \/ Yields(t, r)
  PROVE  \A q \in Record : RecordLists(q)'
<1> DEFINE e == [ts |-> startTs[t], type |-> type, thread |-> t]
           queue == waiters[r]
           longer == BufferWaiter(queue, e)
<1>1. /\ TxnInv /\ TypeOK /\ Requested /\ \A q \in Record : RecordLists(q)
      /\ pc[t] = "acquire"
  BY DEF ListInv, TxnInv, TypeInv, AcquireLock
<1>2. /\ waiters \in [Record -> Seq(Waiter)] /\ owners \in [Record -> SUBSET Nat]
      /\ startTs \in [Thread -> Nat] /\ ready \in [Thread -> BOOLEAN]
      /\ pc \in [Thread -> {"idle", "exec", "acquire", "wait", "timestamp",
                            "stamp", "release", "undo", "done"}]
  BY <1>1 DEF TypeOK
<1>3. /\ waiters' = [waiters EXCEPT ![r] = longer]
      /\ ready' = [ready EXCEPT ![t] = FALSE]
      /\ pc' = [pc EXCEPT ![t] = "wait"]
      /\ owners' = owners /\ lockType' = lockType
      /\ UNCHANGED <<request, accesses, finished, startTs>>
  BY DEF Wait, AcquireLock, txn
<1>4. /\ ~Holds(t, r) /\ \A q \in Record : ~Waits(t, q)
      /\ \A u \in Thread : Holds(u, r) \/ Waits(u, r) =>
           u # t /\ startTs[u] # startTs[t]
  BY <1>1, Asking
<1>5. e \in Waiter /\ queue \in Seq(Waiter)
  <2>1. type \in {"READ_LOCK", "WRITE_LOCK"}
    BY DEF LockTypeOf
  <2> QED
    BY <1>2, <2>1 DEF Waiter
<1>6. /\ OwnersAgree(r) /\ QueueAgrees(r) /\ ModeAgrees(r)
      /\ WaitersAreOldest(r)
  BY <1>1 DEF RecordLists
<1>7. Sorted(queue) /\ \A i \in DOMAIN queue : queue[i].ts # e.ts
  <2>1. Sorted(queue)
    BY <1>6 DEF WaitersAreOldest, Sorted
  <2>2. ASSUME NEW i \in DOMAIN queue, NEW w, w = queue[i] PROVE w.ts # e.ts
    <3>1. /\ w.thread \in Thread /\ Waits(w.thread, r)
          /\ w.ts = startTs[w.thread]
      BY <1>6, <2>2 DEF QueueAgrees, Queued
    <3> QED
      BY <1>4, <3>1
  <2> QED
    BY <2>1, <2>2
<1>8. ASSUME NEW o \in owners[r] PROVE startTs[t] < o
  <2>1. o # startTs[t] /\ o \in Nat
    BY <1>2, <1>4, <1>6 DEF OwnersAgree, Holders
  <2>2. CASE CanWait(t, r)
    BY <1>2, <2>1, <2>2 DEF CanWait
  <2>3. CASE Yields(t, r)
    <3>1. queue # <<>> /\ startTs[t] < Head(queue).ts
      BY <2>3 DEF Yields
    <3>2. Head(queue) = queue[1] /\ 1 \in DOMAIN queue /\ queue[1] \in Waiter
      <4>1. Len(queue) \in Nat \ {0} /\ DOMAIN queue = 1..Len(queue)
        BY <1>5, <3>1, EmptySeq, LenProperties
      <4> QED
        BY <1>5, <4>1, ElementOfSeq
    <3>3. queue[1].ts < o /\ queue[1].ts \in Nat
      BY <1>6, <3>2 DEF WaitersAreOldest, Waiter
    <3> QED
      BY <1>2, <2>1, <3>1, <3>2, <3>3
  <2> QED
    BY <2>2, <2>3
<1>9. ASSUME NEW u \in Thread, NEW q \in Record
      PROVE  /\ HoldsAs(u, q, "READ_ONLY")' = HoldsAs(u, q, "READ_ONLY")
             /\ HoldsAs(u, q, "READ_WRITE")' = HoldsAs(u, q, "READ_WRITE")
             /\ (u # t \/ q # r) => Waits(u, q)' = Waits(u, q)
  BY <1>1, <1>2, <1>3, <1>4 DEF HoldsAs, Waits
<1>10. Waits(t, r)'
  BY <1>2, <1>3 DEF Waits
<1>11. ASSUME NEW q \in Record, q # r PROVE RecordLists(q)'
  <2>1. SameParties(q)
    BY <1>3, <1>9, <1>11 DEF SameParties
  <2>2. waiters'[q] = waiters[q]
    BY <1>2, <1>3, <1>11
  <2> QED
    BY <1>1, <1>3, <2>1, <2>2, RecordFrame
<1>12. /\ longer \in Seq(Waiter) /\ Sorted(longer)
       /\ \E k \in DOMAIN longer : longer[k] = e
       /\ \A i \in DOMAIN longer :
            longer[i] = e \/ \E j \in DOMAIN queue : longer[i] = queue[j]
       /\ \A j \in DOMAIN queue : \E i \in DOMAIN longer : longer[i] = queue[j]
  BY <1>5, <1>7, Buffered, SMTT(30)
<1>13. waiters'[r] = longer
  BY <1>2, <1>3
<1>14. /\ e.ts = startTs[t] /\ e.thread = t
       /\ e.type = LockTypeOf(request[t].type)
  OBVIOUS
<1> HIDE DEF e, longer
<1>15. Holders(r)' = Holders(r)
  BY <1>9 DEF Holders, Holds
<1>16. OwnersAgree(r)'
  BY <1>3, <1>6, <1>15 DEF OwnersAgree
<1>17. ModeAgrees(r)'
  BY <1>3, <1>6, <1>9, <1>15 DEF ModeAgrees
<1>18. QueueAgrees(r)'
  <2>1. ASSUME NEW i \in DOMAIN longer, NEW w, w = longer[i]
        PROVE  Queued(w, r)'
    <3>1. CASE longer[i] = e
      BY <1>3, <1>10, <1>14, <2>1, <3>1 DEF Queued
    <3>2. CASE \E j \in DOMAIN queue : longer[i] = queue[j]
      <4>1. PICK j \in DOMAIN queue : w = queue[j]
        BY <2>1, <3>2
      <4>2. Queued(w, r) /\ w.thread # t
        BY <1>4, <1>6, <4>1 DEF QueueAgrees, Queued
      <4> QED
        BY <1>3, <1>9, <4>2 DEF Queued
    <3> QED
      BY <1>12, <3>1, <3>2
  <2>2. ASSUME NEW u \in Thread, Waits(u, r)'
        PROVE  \E i \in DOMAIN longer : longer[i].thread = u
    <3>1. CASE u = t
      BY <1>12, <1>14, <3>1
    <3>2. CASE u # t
      <4>1. PICK j \in DOMAIN queue : queue[j].thread = u
        BY <1>6, <1>9, <2>2, <3>2 DEF QueueAgrees
      <4> QED
        BY <1>12, <4>1
    <3> QED
      BY <3>1, <3>2
  <2> QED
    BY <1>13, <2>1, <2>2 DEF QueueAgrees, Queued
<1>19. WaitersAreOldest(r)'
  <2>1. ASSUME NEW i \in DOMAIN longer, NEW o \in owners[r]
        PROVE  longer[i].ts < o
    BY <1>6, <1>8, <1>12, <1>14 DEF WaitersAreOldest
  <2> QED
    BY <1>3, <1>12, <1>13, <2>1 DEF WaitersAreOldest, Sorted
<1>20. RecordLists(r)'
  BY <1>16, <1>17, <1>18, <1>19 DEF RecordLists
<1> QED
  BY <1>11, <1>20

(***************************************************************************)
(* AcquireLock makes the transaction an owner: it conflicts with no other, *)
(* and every waiter is older than it.                                      *)
(***************************************************************************)
LEMMA LockOwned ==
  ASSUME ListInv, NEW t \in Thread, AcquireLock(t),
         NEW r \in Record, r = request[t].record,
         NEW type, type = LockTypeOf(request[t].type), Own(t, r, type),
         ~Conflict(type, lockType[r]), ~Yields(t, r)
  PROVE  \A q \in Record : RecordLists(q)'
<1> DEFINE queue == waiters[r]
           access == request[t].type
<1>1. /\ TxnInv /\ TypeOK /\ Requested /\ RequestedOnce
      /\ \A q \in Record : RecordLists(q)
      /\ pc[t] = "acquire"
  BY DEF ListInv, TxnInv, TypeInv, AcquireLock
<1>2. /\ waiters \in [Record -> Seq(Waiter)] /\ owners \in [Record -> SUBSET Nat]
      /\ lockType \in [Record -> {"NO_LOCK", "READ_LOCK", "WRITE_LOCK"}]
      /\ startTs \in [Thread -> Nat] /\ ready \in [Thread -> BOOLEAN]
      /\ pc \in [Thread -> {"idle", "exec", "acquire", "wait", "timestamp",
                            "stamp", "release", "undo", "done"}]
  BY <1>1 DEF TypeOK
<1>3. /\ owners' = [owners EXCEPT ![r] = @ \cup {startTs[t]}]
      /\ lockType' = [lockType EXCEPT ![r] = type]
      /\ ready' = [ready EXCEPT ![t] = TRUE]
      /\ pc' = [pc EXCEPT ![t] = "wait"]
      /\ UNCHANGED <<waiters, request, accesses, finished, startTs>>
  BY DEF Own, AcquireLock, txn
<1>4. /\ ~Holds(t, r) /\ \A q \in Record : ~Waits(t, q)
      /\ \A u \in Thread : Holds(u, r) \/ Waits(u, r) =>
           u # t /\ startTs[u] # startTs[t]
  BY <1>1, Asking
<1>5. /\ access \in {"READ_ONLY", "READ_WRITE"}
      /\ type = (IF access = "READ_ONLY" THEN "READ_LOCK" ELSE "WRITE_LOCK")
  BY <1>1 DEF Requested, Request, LockTypeOf
<1>6. /\ OwnersAgree(r) /\ QueueAgrees(r) /\ ModeAgrees(r)
      /\ WaitersAreOldest(r)
  BY <1>1 DEF RecordLists
<1>7. ASSUME NEW u \in Thread, NEW q \in Record
      PROVE  /\ Waits(u, q)' = Waits(u, q)
             /\ (u # t \/ q # r) =>
                  /\ HoldsAs(u, q, "READ_ONLY")' = HoldsAs(u, q, "READ_ONLY")
                  /\ HoldsAs(u, q, "READ_WRITE")' = HoldsAs(u, q, "READ_WRITE")
  BY <1>1, <1>2, <1>3, <1>4 DEF HoldsAs, Waits
<1>8. /\ HoldsAs(t, r, "READ_ONLY")' <=> access = "READ_ONLY"
      /\ HoldsAs(t, r, "READ_WRITE")' <=> access = "READ_WRITE"
  BY <1>1, <1>2, <1>3, <1>5 DEF HoldsAs, RequestedOnce
<1>9. ASSUME NEW q \in Record, q # r PROVE RecordLists(q)'
  <2>1. SameParties(q)
    BY <1>3, <1>7, <1>9 DEF SameParties
  <2>2. /\ owners'[q] = owners[q] /\ waiters'[q] = waiters[q]
        /\ lockType'[q] = lockType[q]
    BY <1>2, <1>3, <1>9
  <2> QED
    BY <1>1, <2>1, <2>2, RecordFrame
<1>10. Holders(r)' = Holders(r) \cup {t}
  BY <1>5, <1>7, <1>8 DEF Holders, Holds
<1>11. owners'[r] = owners[r] \cup {startTs[t]} /\ lockType'[r] = type
  BY <1>2, <1>3
<1>12. OwnersAgree(r)'
  BY <1>3, <1>6, <1>10, <1>11 DEF OwnersAgree
<1>13. QueueAgrees(r)'
  BY <1>3, <1>6, <1>7, ZenonT(30) DEF QueueAgrees, Queued
<1>14. ModeAgrees(r)'
  <2>1. /\ type = "WRITE_LOCK" => lockType[r] = "NO_LOCK"
        /\ lockType[r] # "WRITE_LOCK"
    BY <1>2, <1>5 DEF Conflict
  <2>2. CASE access = "READ_WRITE"
    <3>1. Holders(r)' = {t} /\ \A u \in Thread : ~Holds(u, r)
      BY <1>5, <1>6, <1>10, <2>1, <2>2 DEF ModeAgrees, Holders
    <3>2. \A u \in Thread : ~HoldsAs(u, r, "READ_ONLY")'
      BY <1>7, <1>8, <2>2, <3>1 DEF Holds
    <3>3. \A u \in Thread : HoldsAs(u, r, "READ_WRITE")' => u = t
      BY <1>7, <3>1 DEF Holds
    <3> QED
      BY <1>5, <1>11, <2>2, <3>1, <3>2, <3>3 DEF ModeAgrees
  <2>3. CASE access = "READ_ONLY"
    <3>1. \A u \in Thread : ~HoldsAs(u, r, "READ_WRITE")'
      BY <1>6, <1>7, <1>8, <2>1, <2>3 DEF ModeAgrees
    <3> QED
      BY <1>5, <1>10, <1>11, <2>3, <3>1 DEF ModeAgrees
  <2> QED
    BY <1>5, <2>2, <2>3
<1>15. ASSUME NEW i \in DOMAIN queue PROVE queue[i].ts < startTs[t]
  <2>1. /\ DOMAIN queue = 1..Len(queue) /\ Len(queue) \in Nat
        /\ \A j \in 1..Len(queue) : queue[j] \in Waiter
    BY <1>2, LenProperties, ElementOfSeq
  <2>2. ASSUME NEW j \in DOMAIN queue, NEW w, w = queue[j]
        PROVE  w.ts \in Nat /\ w.ts # startTs[t]
    <3>1. /\ w.thread \in Thread /\ Waits(w.thread, r)
          /\ w.ts = startTs[w.thread]
      BY <1>6, <2>2 DEF QueueAgrees, Queued
    <3>2. w \in Waiter
      BY <2>1, <2>2
    <3> QED
      BY <1>4, <3>1, <3>2 DEF Waiter
  <2>3. 1 \in DOMAIN queue /\ queue # <<>> /\ Head(queue) = queue[1]
    BY <1>2, <2>1, EmptySeq
  <2>4. queue[1].ts < startTs[t]
    <3>1. queue[1].ts \in Nat /\ queue[1].ts # startTs[t]
      BY <2>2, <2>3
    <3>2. ~(startTs[t] < queue[1].ts)
      BY <1>2, <2>3 DEF Yields
    <3> QED
      BY <1>2, <3>1, <3>2
  <2>5. 1 < i => queue[i].ts < queue[1].ts
    BY <1>6, <2>3 DEF WaitersAreOldest
  <2>6. i = 1 \/ 1 < i
    BY <2>1
  <2>7. queue[i].ts \in Nat /\ queue[1].ts \in Nat /\ startTs[t] \in Nat
    BY <1>2, <2>2, <2>3
  <2> QED
    BY <2>4, <2>5, <2>6, <2>7
<1>16. WaitersAreOldest(r)'
  <2>1. waiters'[r] = queue
    BY <1>3
  <2>2. ASSUME NEW i \in DOMAIN queue, NEW o \in owners'[r]
        PROVE  queue[i].ts < o
    <3>1. o \in owners[r] => queue[i].ts < o
      BY <1>6, <2>2 DEF WaitersAreOldest
    <3> QED
      BY <1>11, <1>15, <2>2, <3>1
  <2>3. \A i, j \in DOMAIN queue : i < j => queue[j].ts < queue[i].ts
    BY <1>6 DEF WaitersAreOldest
  <2> QED
    BY <2>1, <2>2, <2>3 DEF WaitersAreOldest
<1>17. RecordLists(r)'
  BY <1>12, <1>13, <1>14, <1>16 DEF RecordLists
<1> QED
  BY <1>9, <1>17

(***************************************************************************)
(* AcquireLock as a whole.                                                 *)
(***************************************************************************)
LEMMA LockAcquired ==
  ASSUME ListInv, NEW t \in Thread, AcquireLock(t)
  PROVE  \A q \in Record : RecordLists(q)'
<1> DEFINE r == request[t].record
           type == LockTypeOf(request[t].type)
<1>1. /\ TypeOK /\ RequestedOnce /\ FinishedLater
      /\ \A q \in Record : RecordLists(q)
      /\ pc[t] = "acquire" /\ r \in Record
  BY DEF ListInv, TxnInv, TypeInv, AcquireLock, Requested, Request, Record
<1>2. \/ Wait(t, r, type) /\ (CanWait(t, r) \/ Yields(t, r))
      \/ Own(t, r, type) /\ ~Conflict(type, lockType[r]) /\ ~Yields(t, r)
      \/ Die(t)
  <2>1. IF Conflict(type, lockType[r])
        THEN IF CanWait(t, r) THEN Wait(t, r, type) ELSE Die(t)
        ELSE IF Yields(t, r) THEN Wait(t, r, type) ELSE Own(t, r, type)
    BY DEF AcquireLock
  <2>2. CASE Conflict(type, lockType[r]) /\ CanWait(t, r)
    BY <2>1, <2>2
  <2>3. CASE Conflict(type, lockType[r]) /\ ~CanWait(t, r)
    BY <2>1, <2>3
  <2>4. CASE ~Conflict(type, lockType[r]) /\ Yields(t, r)
    BY <2>1, <2>4
  <2>5. CASE ~Conflict(type, lockType[r]) /\ ~Yields(t, r)
    BY <2>1, <2>5
  <2> QED
    BY <2>2, <2>3, <2>4, <2>5
<1>3. CASE Wait(t, r, type) /\ (CanWait(t, r) \/ Yields(t, r))
  BY <1>1, <1>3, LockAwaited
<1>4. CASE Own(t, r, type) /\ ~Conflict(type, lockType[r]) /\ ~Yields(t, r)
  BY <1>1, <1>4, LockOwned
<1>5. CASE Die(t)
  <2>1. /\ pc' = [pc EXCEPT ![t] = "undo"] /\ finished[t] = 0
        /\ pc \in [Thread -> {"idle", "exec", "acquire", "wait", "timestamp",
                              "stamp", "release", "undo", "done"}]
        /\ accesses \in [Thread -> Seq(Entry)]
        /\ UNCHANGED <<owners, waiters, lockType, ready, request, accesses,
                       finished, startTs>>
    BY <1>1, <1>5 DEF AcquireLock, Die, locks, txn, FinishedLater, TypeOK
  <2>2. \A i \in DOMAIN accesses[t] : 0 < i
    BY <2>1, LenProperties
  <2>3. ASSUME NEW q \in Record PROVE SameParties(q)
    BY <1>1, <2>1, <2>2 DEF SameParties, HoldsAs, Waits
  <2> QED
    BY <1>1, <2>1, <2>3, RecordFrame
<1> QED
  BY <1>2, <1>3, <1>4, <1>5

(***************************************************************************)
(* The entry that is released next.                                        *)
(***************************************************************************)
LEMMA Releasing ==
  ASSUME TxnInv, NEW t \in Thread, ReleaseLock(t)
  PROVE  /\ finished[t] + 1 \in DOMAIN accesses[t]
         /\ Current(t) \in Entry /\ pc[t] \in {"release", "undo"}
         /\ finished' = [finished EXCEPT ![t] = finished[t] + 1]
         /\ UNCHANGED <<pc, request, accesses, startTs>>
         /\ \A i \in DOMAIN accesses[t] : i \in Nat
<1>1. /\ TypeOK /\ accesses \in [Thread -> Seq(Entry)]
      /\ finished \in [Thread -> Nat]
  BY DEF TxnInv, TypeInv, TypeOK
<1>2. Len(accesses[t]) \in Nat /\ DOMAIN accesses[t] = 1..Len(accesses[t])
  BY <1>1, LenProperties
<1>3. /\ pc[t] \in {"release", "undo"} /\ finished[t] < Len(accesses[t])
      /\ finished' = [finished EXCEPT ![t] = finished[t] + 1]
      /\ UNCHANGED <<pc, request, accesses, startTs>>
  BY DEF ReleaseLock
<1>4. finished[t] + 1 \in DOMAIN accesses[t]
  BY <1>1, <1>2, <1>3
<1>5. Current(t) \in Entry
  BY <1>1, <1>4, EntryType DEF Current
<1> QED
  BY <1>2, <1>3, <1>4, <1>5

(***************************************************************************)
(* Who holds and awaits the locks after ReleaseLock: t has given back the  *)
(* lock of r, and the first n waiters for it, G, hold it now.              *)
(***************************************************************************)
LEMMA PartiesAfterRelease ==
  ASSUME ListInv, NEW t \in Thread, ReleaseLock(t),
         NEW r \in Record, r = Current(t).record,
         Current(t).type # "INSERT_ONLY",
         NEW G \in SUBSET Thread, \A u \in G : Waits(u, r),
         ready' = [u \in Thread |-> ready[u] \/ u \in G]
  PROVE  /\ Holds(t, r) /\ t \notin G
         /\ \A q \in Record \ {r} : SameParties(q)
         /\ \A u \in Thread : Waits(u, r)' <=> Waits(u, r) /\ u \notin G
         /\ ~Holds(t, r)'
         /\ \A u \in Thread \ (G \cup {t}) :
              /\ HoldsAs(u, r, "READ_ONLY")' = HoldsAs(u, r, "READ_ONLY")
              /\ HoldsAs(u, r, "READ_WRITE")' = HoldsAs(u, r, "READ_WRITE")
         /\ \A u \in G : \A type \in {"READ_ONLY", "READ_WRITE"} :
              HoldsAs(u, r, type)' <=> request[u].type = type
<1> DEFINE k == finished[t] + 1
<1>1. /\ TxnInv /\ TypeOK /\ AccessedOnce /\ RequestedOnce
      /\ ready \in [Thread -> BOOLEAN] /\ finished \in [Thread -> Nat]
  BY DEF ListInv, TxnInv, TypeInv, TypeOK
<1>2. /\ k \in DOMAIN accesses[t] /\ pc[t] \in {"release", "undo"}
      /\ Current(t) \in Entry
      /\ finished' = [finished EXCEPT ![t] = k]
      /\ UNCHANGED <<pc, request, accesses, startTs>>
      /\ \A i \in DOMAIN accesses[t] : i \in Nat
  BY <1>1, Releasing
<1>3. /\ accesses[t][k].record = r
      /\ accesses[t][k].type \in {"READ_ONLY", "READ_WRITE"}
  BY <1>2 DEF Current, Entry
<1>4. finished[t] < k /\ finished[t] \in Nat /\ k \in Nat
  BY <1>1
<1> HIDE DEF k
<1>5. Holds(t, r)
  BY <1>2, <1>3, <1>4 DEF Holds, HoldsAs
<1>6. t \notin G
  BY <1>2 DEF Waits
<1>7. \A u \in Thread : ready'[u] = (ready[u] \/ u \in G)
  OBVIOUS
<1>8. ASSUME NEW u \in Thread, u # t PROVE finished'[u] = finished[u]
  BY <1>1, <1>2, <1>8
<1>9. finished'[t] = k
  BY <1>1, <1>2
<1>10. ASSUME NEW type PROVE ~HoldsAs(t, r, type)'
  BY <1>1, <1>2, <1>3, <1>4, <1>9 DEF HoldsAs, AccessedOnce
<1>11. ASSUME NEW q \in Record \ {r}, NEW type
       PROVE  HoldsAs(t, q, type)' = HoldsAs(t, q, type)
  <2>1. ASSUME NEW i \in DOMAIN accesses[t], accesses[t][i].record = q
        PROVE  finished[t] < i <=> k < i
    <3>1. i # k /\ i \in Nat
      BY <1>2, <1>3, <2>1
    <3> QED
      BY <1>4, <3>1 DEF k
  <2> QED
    BY <1>2, <1>9, <2>1 DEF HoldsAs
<1>12. ASSUME NEW u \in Thread \ (G \cup {t}), NEW q \in Record, NEW type
       PROVE  HoldsAs(u, q, type)' = HoldsAs(u, q, type)
  BY <1>1, <1>2, <1>7, <1>8 DEF HoldsAs
<1>13. ASSUME NEW u \in G, NEW q \in Record, q # r, NEW type
       PROVE  HoldsAs(u, q, type)' = HoldsAs(u, q, type)
  BY <1>2, <1>6, <1>7, <1>8, <1>13 DEF HoldsAs, Waits
<1>14. ASSUME NEW u \in G, NEW type
       PROVE  HoldsAs(u, r, type)' <=> request[u].type = type
  <2>1. u \in Thread /\ Waits(u, r)
    OBVIOUS
  <2>2. pc[u] = "wait" /\ request[u].record = r
    BY <2>1 DEF Waits
  <2>3. \A i \in DOMAIN accesses[u] : accesses[u][i].record # r
    BY <1>1, <2>1, <2>2 DEF RequestedOnce
  <2>4. ready'[u]
    BY <1>7, <2>1
  <2> QED
    BY <1>2, <2>2, <2>3, <2>4 DEF HoldsAs
<1>15. ASSUME NEW u \in Thread, NEW q \in Record
       PROVE  Waits(u, q)' <=> Waits(u, q) /\ u \notin G
  BY <1>2, <1>7 DEF Waits
<1>16. ASSUME NEW u \in Thread, NEW q \in Record \ {r}
       PROVE  Waits(u, q)' = Waits(u, q)
  BY <1>15 DEF Waits
<1>17. ASSUME NEW q \in Record \ {r} PROVE SameParties(q)
  BY <1>2, <1>11, <1>12, <1>13, <1>16 DEF SameParties
<1> QED
  BY <1>5, <1>6, <1>10, <1>12, <1>14, <1>15, <1>17 DEF Holds

(***************************************************************************)
(* ReleaseLock while there are other owners: only readers can share it.    *)
(***************************************************************************)
LEMMA OwnerRemoved ==
  ASSUME ListInv, NEW t \in Thread, ReleaseLock(t),
         NEW r \in Record, r = Current(t).record,
         Current(t).type # "INSERT_ONLY", HandOver(t, r),
         owners[r] \ {startTs[t]} # {}
  PROVE  \A q \in Record : RecordLists(q)'
<1> DEFINE rest == owners[r] \ {startTs[t]}
           queue == waiters[r]
<1>1. /\ TxnInv /\ TypeOK /\ \A q \in Record : RecordLists(q)
      /\ waiters \in [Record -> Seq(Waiter)] /\ owners \in [Record -> SUBSET Nat]
      /\ lockType \in [Record -> {"NO_LOCK", "READ_LOCK", "WRITE_LOCK"}]
      /\ startTs \in [Thread -> Nat] /\ ready \in [Thread -> BOOLEAN]
  BY DEF ListInv, TxnInv, TypeInv, TypeOK
<1>2. UNCHANGED <<pc, request, accesses, startTs>>
  BY <1>1, Releasing
<1>3. /\ owners' = [owners EXCEPT ![r] = rest \cup {queue[i].ts : i \in 1..0}]
      /\ waiters' = [waiters EXCEPT ![r] = SubSeq(queue, 1, Len(queue))]
      /\ lockType' = [lockType EXCEPT ![r] = lockType[r]]
      /\ ready' = [u \in Thread |->
                     ready[u] \/ \E i \in 1..0 : queue[i].thread = u]
  <2> DEFINE n == IF rest = {} THEN GrantCount(queue) ELSE 0
  <2>1. /\ owners' = [owners EXCEPT ![r] = rest \cup {queue[i].ts : i \in 1..n}]
        /\ waiters' = [waiters EXCEPT ![r] = SubSeq(queue, n + 1, Len(queue))]
        /\ lockType' = [lockType EXCEPT ![r] =
                          IF rest # {} THEN @
                          ELSE IF n = 0 THEN "NO_LOCK" ELSE queue[n].type]
        /\ ready' = [u \in Thread |->
                       ready[u] \/ \E i \in 1..n : queue[i].thread = u]
    BY DEF HandOver
  <2>2. n = 0 /\ n + 1 = 1 /\ rest # {}
    OBVIOUS
  <2> HIDE DEF n, rest
  <2> QED
    BY <2>1, <2>2
<1>4. SubSeq(queue, 1, Len(queue)) = queue
  <2>1. queue \in Seq(Waiter)
    BY <1>1
  <2> QED
    BY <2>1, SubSeqFull
<1>5. 1..0 = {}
  OBVIOUS
<1>6. /\ owners'[r] = rest /\ waiters' = waiters /\ lockType' = lockType
      /\ ready' = [u \in Thread |-> ready[u] \/ u \in {}]
      /\ \A q \in Record : q # r => owners'[q] = owners[q]
  BY <1>1, <1>3, <1>4, <1>5
<1> HIDE DEF rest
<1>7. /\ Holds(t, r)
      /\ \A q \in Record \ {r} : SameParties(q)
      /\ \A u \in Thread : Waits(u, r)' <=> Waits(u, r)
      /\ ~Holds(t, r)'
      /\ \A u \in Thread \ {t} :
           /\ HoldsAs(u, r, "READ_ONLY")' = HoldsAs(u, r, "READ_ONLY")
           /\ HoldsAs(u, r, "READ_WRITE")' = HoldsAs(u, r, "READ_WRITE")
  <2> DEFINE G == {}
  <2>1. G \in SUBSET Thread /\ \A u \in G : Waits(u, r)
    OBVIOUS
  <2>2. ready' = [u \in Thread |-> ready[u] \/ u \in G]
    BY <1>6
  <2>3. \A u \in Thread : u \notin G /\ G \cup {t} = {t}
    OBVIOUS
  <2> HIDE DEF G
  <2> QED
    BY <2>1, <2>2, <2>3, PartiesAfterRelease
<1>8. /\ OwnersAgree(r) /\ QueueAgrees(r) /\ ModeAgrees(r)
      /\ WaitersAreOldest(r)
  BY <1>1 DEF RecordLists
<1>9. ASSUME NEW q \in Record, q # r PROVE RecordLists(q)'
  BY <1>1, <1>6, <1>7, <1>9, RecordFrame
<1>10. Holders(r)' = Holders(r) \ {t}
  BY <1>7 DEF Holders, Holds
<1>11. \A u \in Holders(r) : startTs[u] = startTs[t] => u = t
  BY <1>1, <1>7, Parties DEF Holders
<1>12. OwnersAgree(r)'
  BY <1>2, <1>6, <1>8, <1>10, <1>11 DEF OwnersAgree, rest
<1>13. PICK v \in Holders(r) : v # t
  BY <1>8 DEF OwnersAgree, rest
<1>14. QueueAgrees(r)'
  <2>1. waiters'[r] = queue
    BY <1>6
  <2>2. ASSUME NEW w, Queued(w, r) PROVE Queued(w, r)'
    BY <1>2, <1>7, <2>2 DEF Queued
  <2>3. \A i \in DOMAIN queue : Queued(queue[i], r)
    BY <1>8 DEF QueueAgrees
  <2>4. ASSUME NEW i \in DOMAIN queue, NEW w, w = queue[i] PROVE Queued(w, r)'
    BY <2>2, <2>3, <2>4
  <2>5. \A u \in Thread : Waits(u, r)' =>
          \E i \in DOMAIN queue : queue[i].thread = u
    BY <1>7, <1>8 DEF QueueAgrees
  <2> QED
    BY <2>1, <2>4, <2>5 DEF QueueAgrees, Queued
<1>15. ModeAgrees(r)'
  <2>1. \A u \in Thread : ~HoldsAs(u, r, "READ_WRITE")
    BY <1>7, <1>8, <1>13 DEF ModeAgrees, Holders
  <2>2. HoldsAs(v, r, "READ_ONLY") /\ v \in Thread
    BY <1>13, <2>1 DEF Holders, Holds
  <2>3. lockType[r] = "READ_LOCK"
    BY <1>8, <2>2 DEF ModeAgrees
  <2>4. v \in Holders(r)'
    BY <1>10, <1>13
  <2>5. \A u \in Thread : ~HoldsAs(u, r, "READ_WRITE")'
    BY <1>7, <2>1 DEF Holds
  <2> QED
    BY <1>6, <2>3, <2>4, <2>5 DEF ModeAgrees
<1>16. WaitersAreOldest(r)'
  BY <1>6, <1>8 DEF WaitersAreOldest, rest
<1>17. RecordLists(r)'
  BY <1>12, <1>14, <1>15, <1>16 DEF RecordLists
<1> QED
  BY <1>9, <1>17

(***************************************************************************)
(* What is left of a queue whose first n entries are granted.              *)
(***************************************************************************)
LEMMA QueueRest ==
  ASSUME NEW queue \in Seq(Waiter), NEW n \in 0..Len(queue)
  PROVE  LET q == SubSeq(queue, n + 1, Len(queue))
         IN  /\ DOMAIN q = 1..(Len(queue) - n)
             /\ \A i \in DOMAIN q : q[i] = queue[n + i]
             /\ \A i \in DOMAIN q : n + i \in DOMAIN queue /\ n < n + i
<1> DEFINE len == Len(queue)
           q == SubSeq(queue, n + 1, len)
<1>1. len \in Nat /\ n \in Nat /\ n <= len /\ DOMAIN queue = 1..len
  BY LenProperties
<1>2. \A i \in 1..len : queue[i] \in Waiter
  BY ElementOfSeq
<1> HIDE DEF len
<1>3. \A i \in (n + 1)..len : queue[i] \in Waiter
  BY <1>1, <1>2
<1>4. /\ len - (n + 1) + 1 = len - n
      /\ \A i \in 1..(len - n) : (n + 1) + i - 1 = n + i
      /\ n + 1 \in Int /\ len \in Int
  BY <1>1
<1>5. /\ q \in Seq(Waiter)
      /\ Len(q) = IF n + 1 <= len THEN len - (n + 1) + 1 ELSE 0
      /\ \A i \in 1..(len - (n + 1) + 1) : q[i] = queue[(n + 1) + i - 1]
  BY <1>3, <1>4, SubSeqProperties
<1>6. Len(q) = len - n
  <2>1. CASE n + 1 <= len
    BY <1>4, <1>5, <2>1
  <2>2. CASE n = len
    <3>1. ~(n + 1 <= len) /\ len - n = 0
      BY <1>1, <2>2
    <3> QED
      BY <1>5, <3>1
  <2> QED
    BY <1>1, <2>1, <2>2
<1>7. DOMAIN q = 1..(len - n)
  BY <1>5, <1>6, LenProperties
<1>8. \A i \in 1..(len - n) : q[i] = queue[n + i]
  BY <1>4, <1>5
<1>9. \A i \in 1..(len - n) : n + i \in DOMAIN queue /\ n < n + i
  BY <1>1
<1> QED
  BY <1>7, <1>8, <1>9 DEF len

(***************************************************************************)
(* ReleaseLock by the last owner: DebufferWaiters grants the lock to the   *)
(* first of the waiters.                                                   *)
(***************************************************************************)
LEMMA LockHandedOver ==
  ASSUME ListInv, NEW t \in Thread, ReleaseLock(t),
         NEW r \in Record, r = Current(t).record,
         Current(t).type # "INSERT_ONLY", HandOver(t, r),
         owners[r] \ {startTs[t]} = {}
  PROVE  \A q \in Record : RecordLists(q)'
<1> DEFINE queue == waiters[r]
           n == GrantCount(queue)
           G == {queue[i].thread : i \in 1..n}
           remaining == SubSeq(queue, n + 1, Len(queue))
<1>1. /\ TxnInv /\ TypeOK /\ Requested /\ \A q \in Record : RecordLists(q)
      /\ waiters \in [Record -> Seq(Waiter)] /\ owners \in [Record -> SUBSET Nat]
      /\ lockType \in [Record -> {"NO_LOCK", "READ_LOCK", "WRITE_LOCK"}]
      /\ startTs \in [Thread -> Nat] /\ ready \in [Thread -> BOOLEAN]
  BY DEF ListInv, TxnInv, TypeInv, TypeOK
<1>2. UNCHANGED <<pc, request, accesses, startTs>>
  BY <1>1, Releasing
<1>3. /\ OwnersAgree(r) /\ QueueAgrees(r) /\ ModeAgrees(r)
      /\ WaitersAreOldest(r)
  BY <1>1 DEF RecordLists
<1>4. /\ queue \in Seq(Waiter) /\ Len(queue) \in Nat
      /\ DOMAIN queue = 1..Len(queue)
      /\ \A i \in DOMAIN queue : queue[i] \in Waiter /\ queue[i].ts \in Nat
  <2>1. /\ queue \in Seq(Waiter) /\ Len(queue) \in Nat
        /\ DOMAIN queue = 1..Len(queue)
    BY <1>1, LenProperties
  <2>2. \A i \in DOMAIN queue : queue[i] \in Waiter
    BY <2>1, ElementOfSeq
  <2> QED
    BY <2>1, <2>2 DEF Waiter
<1>5. /\ n \in 0..Len(queue)
      /\ n > 1 => \A i \in 1..n : queue[i].type = "READ_LOCK"
  BY <1>4, Granting
<1>6. /\ DOMAIN remaining = 1..(Len(queue) - n)
      /\ \A i \in DOMAIN remaining : remaining[i] = queue[n + i]
      /\ \A i \in DOMAIN remaining : n + i \in DOMAIN queue /\ n < n + i
  BY <1>4, <1>5, QueueRest
<1>7. /\ owners'[r] = {queue[i].ts : i \in 1..n}
      /\ waiters'[r] = remaining
      /\ lockType'[r] = IF n = 0 THEN "NO_LOCK" ELSE queue[n].type
      /\ ready' = [u \in Thread |->
                     ready[u] \/ \E i \in 1..n : queue[i].thread = u]
      /\ \A q \in Record : q # r => /\ owners'[q] = owners[q]
                                   /\ waiters'[q] = waiters[q]
                                   /\ lockType'[q] = lockType[q]
  BY <1>1 DEF HandOver
<1> HIDE DEF n, remaining
<1>8. \A i \in 1..n : i \in DOMAIN queue
  BY <1>4, <1>5
<1>9. \A i \in DOMAIN queue : Queued(queue[i], r)
  BY <1>3 DEF QueueAgrees
<1>10. G \in SUBSET Thread /\ \A u \in G : Waits(u, r)
  BY <1>8, <1>9 DEF Queued
<1>11. ready' = [u \in Thread |-> ready[u] \/ u \in G]
  BY <1>7
<1>12. /\ Holds(t, r) /\ t \notin G
       /\ \A q \in Record \ {r} : SameParties(q)
       /\ \A u \in Thread : Waits(u, r)' <=> Waits(u, r) /\ u \notin G
       /\ ~Holds(t, r)'
       /\ \A u \in Thread \ (G \cup {t}) :
            /\ HoldsAs(u, r, "READ_ONLY")' = HoldsAs(u, r, "READ_ONLY")
            /\ HoldsAs(u, r, "READ_WRITE")' = HoldsAs(u, r, "READ_WRITE")
       /\ \A u \in G : \A type \in {"READ_ONLY", "READ_WRITE"} :
            HoldsAs(u, r, type)' <=> request[u].type = type
  <2> HIDE DEF G
  <2> QED
    BY <1>10, <1>11, PartiesAfterRelease
<1>13. ASSUME NEW q \in Record, q # r PROVE RecordLists(q)'
  BY <1>1, <1>7, <1>12, <1>13, RecordFrame
<1>14. Holders(r) = {t}
  <2>1. ASSUME NEW u \in Thread, Holds(u, r) PROVE u = t
    <3>1. startTs[u] = startTs[t]
      BY <1>3, <2>1 DEF OwnersAgree, Holders
    <3> QED
      BY <1>1, <1>12, <2>1, <3>1, Parties
  <2> QED
    BY <1>12, <2>1 DEF Holders
<1>15. \A u \in G : request[u].type \in {"READ_ONLY", "READ_WRITE"}
  BY <1>1, <1>10 DEF Requested, Request, Waits
<1>16. \A u \in Thread \ (G \cup {t}) : ~Holds(u, r)
  BY <1>14 DEF Holders
<1>17. Holders(r)' = G
  BY <1>10, <1>12, <1>15, <1>16 DEF Holders, Holds
<1>18. OwnersAgree(r)'
  <2>1. \A i \in 1..n : queue[i].ts = startTs[queue[i].thread]
    BY <1>8, <1>9 DEF Queued
  <2>2. owners'[r] = {startTs[u] : u \in G}
    BY <1>7, <2>1
  <2> QED
    BY <1>2, <1>17, <2>2 DEF OwnersAgree
<1>19. ASSUME NEW i \in DOMAIN queue, NEW j \in DOMAIN queue, i < j
       PROVE  queue[j].ts < queue[i].ts /\ queue[i].thread # queue[j].thread
  <2>1. queue[j].ts < queue[i].ts /\ queue[i].ts \in Nat /\ queue[j].ts \in Nat
    BY <1>3, <1>4, <1>19 DEF WaitersAreOldest
  <2>2. /\ queue[i].ts = startTs[queue[i].thread]
        /\ queue[j].ts = startTs[queue[j].thread]
    BY <1>9, <1>19 DEF Queued
  <2>3. queue[i].ts # queue[j].ts
    BY <2>1
  <2> QED
    BY <2>1, <2>2, <2>3
<1>20. ASSUME NEW i \in DOMAIN remaining
       PROVE  /\ remaining[i] = queue[n + i] /\ n + i \in DOMAIN queue
              /\ queue[n + i].thread \notin G
              /\ \A j \in 1..n : queue[n + i].ts < queue[j].ts
  <2>1. remaining[i] = queue[n + i] /\ n + i \in DOMAIN queue /\ n < n + i
    BY <1>6
  <2>2. ASSUME NEW j \in 1..n PROVE j \in DOMAIN queue /\ j < n + i
    BY <1>4, <1>5, <1>8, <2>1
  <2>3. ASSUME NEW j \in 1..n
        PROVE  /\ queue[n + i].ts < queue[j].ts
               /\ queue[j].thread # queue[n + i].thread
    BY <1>19, <2>1, <2>2
  <2> QED
    BY <2>1, <2>3
<1>21. QueueAgrees(r)'
  <2>1. ASSUME NEW i \in DOMAIN remaining, NEW w, w = remaining[i] PROVE Queued(w, r)'
    <3>1. w = queue[n + i] /\ n + i \in DOMAIN queue /\ w.thread \notin G
      BY <1>20, <2>1
    <3>2. Queued(w, r)
      BY <1>9, <3>1
    <3> QED
      BY <1>2, <1>12, <3>1, <3>2 DEF Queued
  <2>2. ASSUME NEW u \in Thread, Waits(u, r)'
        PROVE  \E i \in DOMAIN remaining : remaining[i].thread = u
    <3>1. Waits(u, r) /\ u \notin G
      BY <1>12, <2>2
    <3>2. PICK j \in DOMAIN queue : queue[j].thread = u
      BY <1>3, <3>1 DEF QueueAgrees
    <3>3. j \notin 1..n
      BY <3>1, <3>2
    <3>4. j - n \in 1..(Len(queue) - n) /\ n + (j - n) = j
      BY <1>4, <1>5, <3>3
    <3> QED
      BY <1>6, <3>2, <3>4
  <2> QED
    BY <1>7, <2>1, <2>2 DEF QueueAgrees, Queued
<1>22. WaitersAreOldest(r)'
  <2>1. ASSUME NEW i \in DOMAIN remaining, NEW j \in DOMAIN remaining, i < j
        PROVE  remaining[j].ts < remaining[i].ts
    <3>1. n + i < n + j
      BY <1>4, <1>5, <1>6, <2>1
    <3> QED
      BY <1>19, <1>20, <3>1
  <2>2. \A i \in DOMAIN remaining : \A o \in owners'[r] : remaining[i].ts < o
    BY <1>7, <1>20
  <2> QED
    BY <1>7, <2>1, <2>2 DEF WaitersAreOldest
<1>23. ModeAgrees(r)'
  <2>1. \A u \in Thread : \A type \in {"READ_ONLY", "READ_WRITE"} :
          HoldsAs(u, r, type)' => u \in G /\ request[u].type = type
    BY <1>12, <1>16 DEF Holds
  <2>2. ASSUME NEW i \in 1..n
        PROVE  /\ queue[i].type \in {"READ_LOCK", "WRITE_LOCK"}
               /\ queue[i].type = LockTypeOf(request[queue[i].thread].type)
               /\ n > 1 => queue[i].type = "READ_LOCK"
    BY <1>4, <1>5, <1>8, <1>9 DEF Queued, Waiter
  <2>3. n \in Nat
    BY <1>5
  <2>4. CASE n = 0
    <3>1. G = {}
      BY <2>4
    <3> QED
      BY <1>7, <1>17, <2>1, <2>4, <3>1 DEF ModeAgrees
  <2>5. CASE n = 1
    <3>1. G = {queue[1].thread} /\ lockType'[r] = queue[1].type
      BY <1>7, <2>5
    <3>2. /\ queue[1].type \in {"READ_LOCK", "WRITE_LOCK"}
          /\ queue[1].type = LockTypeOf(request[queue[1].thread].type)
      BY <2>2, <2>5
    <3> QED
      BY <1>17, <2>1, <3>1, <3>2 DEF ModeAgrees, LockTypeOf
  <2>6. CASE n > 1
    <3>1. lockType'[r] = "READ_LOCK"
      BY <1>7, <2>2, <2>3, <2>6
    <3>2. G # {}
      BY <2>3, <2>6, SMTT(30)
    <3>3. \A u \in G : request[u].type = "READ_ONLY"
      BY <1>15, <2>2, <2>6 DEF LockTypeOf
    <3> QED
      BY <1>17, <2>1, <3>1, <3>2, <3>3 DEF ModeAgrees
  <2> QED
    BY <2>3, <2>4, <2>5, <2>6
<1>24. RecordLists(r)'
  BY <1>18, <1>21, <1>22, <1>23 DEF RecordLists
<1> QED
  BY <1>13, <1>24

(***************************************************************************)
(* The other steps of a thread change neither the lists nor who holds and  *)
(* awaits the locks.                                                       *)
(***************************************************************************)
LEMMA InsertedParties ==
  ASSUME ListInv, NEW t \in Thread, NEW r \in Fresh, InsertRecord(t, r),
         NEW q \in Record
  PROVE  SameParties(q)
<1> DEFINE e == [record |-> r, type |-> "INSERT_ONLY", ts |-> ZeroTs,
                 seen |-> Unread, new |-> Kept]
           n == Len(accesses[t]) + 1
<1>1. /\ TxnInv /\ TypeOK /\ StartTsDistinct /\ accesses \in [Thread -> Seq(Entry)]
  BY DEF ListInv, TxnInv, TypeInv, TypeOK
<1>2. e \in Entry /\ e.type = "INSERT_ONLY"
  BY DEF Entry, Record, ZeroTs, Timestamp
<1>3. /\ DOMAIN accesses'[t] = DOMAIN accesses[t] \cup {n}
      /\ accesses'[t][n] = e
      /\ \A i \in DOMAIN accesses[t] : accesses'[t][i] = accesses[t][i]
  BY <1>1, <1>2, EntryAppended DEF InsertRecord
<1>4. \A u \in Thread : u # t => accesses'[u] = accesses[u]
  BY <1>1 DEF InsertRecord
<1>5. UNCHANGED <<pc, request, finished, ready>>
  BY DEF InsertRecord
<1>6. \A u \in Thread : ~isFirst[u] => startTs'[u] = startTs[u]
  BY <1>1, StartTimestampDrawn DEF InsertRecord
<1> HIDE DEF e, n
<1>7. ASSUME NEW type \in {"READ_ONLY", "READ_WRITE"}
      PROVE  HoldsAs(t, q, type)' = HoldsAs(t, q, type)
  BY <1>2, <1>3, <1>5 DEF HoldsAs
<1>8. ASSUME NEW u \in Thread, u # t, NEW type
      PROVE  HoldsAs(u, q, type)' = HoldsAs(u, q, type)
  BY <1>4, <1>5, <1>8 DEF HoldsAs
<1>9. \A u \in Thread : Waits(u, q)' = Waits(u, q)
  BY <1>5 DEF Waits
<1>10. \A u \in Thread : Holds(u, q) \/ Waits(u, q) => ~isFirst[u]
  BY <1>1, Parties
<1> QED
  BY <1>5, <1>6, <1>7, <1>8, <1>9, <1>10 DEF SameParties

(***************************************************************************)
(* SelectRecordCC only records which lock it is about to ask for: nobody   *)
(* owns or awaits anything more.                                           *)
(***************************************************************************)
LEMMA SelectedParties ==
  ASSUME ListInv, NEW t \in Thread, NEW r \in Indexed,
         NEW type \in {"READ_ONLY", "READ_WRITE"}, SelectRecordCC(t, r, type),
         NEW q \in Record
  PROVE  SameParties(q)
<1>1. /\ TxnInv /\ TypeOK /\ StartTsDistinct
      /\ request \in [Thread -> Request \cup {NoRequest}]
      /\ pc \in [Thread -> {"idle", "exec", "acquire", "wait", "timestamp",
                            "stamp", "release", "undo", "done"}]
  BY DEF ListInv, TxnInv, TypeInv, TypeOK
<1>2. /\ request' = [request EXCEPT ![t] = [record |-> r, type |-> type]]
      /\ pc' = [pc EXCEPT ![t] = "acquire"] /\ pc[t] = "exec"
      /\ UNCHANGED <<accesses, finished, ready>>
  BY DEF SelectRecordCC
<1>3. \A u \in Thread : ~isFirst[u] => startTs'[u] = startTs[u]
  BY <1>1, StartTimestampDrawn DEF SelectRecordCC
<1>4. ASSUME NEW u \in Thread, NEW access
      PROVE  HoldsAs(u, q, access)' = HoldsAs(u, q, access)
  BY <1>1, <1>2 DEF HoldsAs
<1>5. ASSUME NEW u \in Thread
      PROVE  /\ Waits(u, q)' = Waits(u, q)
             /\ Waits(u, q) => request'[u] = request[u]
  BY <1>1, <1>2 DEF Waits
<1>6. \A u \in Thread : Holds(u, q) \/ Waits(u, q) => ~isFirst[u]
  BY <1>1, Parties
<1> QED
  BY <1>3, <1>4, <1>5, <1>6 DEF SameParties

(***************************************************************************)
(* The thread that spins on lock_ready goes on: what it was granted is now *)
(* an entry of its list.                                                   *)
(***************************************************************************)
LEMMA EnteredParties ==
  ASSUME ListInv, NEW t \in Thread, NewAccess(t), NEW q \in Record
  PROVE  SameParties(q)
<1> DEFINE r == request[t].record
           e == [record |-> r, type |-> request[t].type, ts |-> ts[r],
                 new |-> Kept,
                 seen |-> IF request[t].type = "READ_WRITE" THEN word[r]
                          ELSE Unread]
           n == Len(accesses[t]) + 1
<1>1. /\ TypeOK /\ Requested /\ FinishedLater
      /\ accesses \in [Thread -> Seq(Entry)]
      /\ request \in [Thread -> Request \cup {NoRequest}]
      /\ pc \in [Thread -> {"idle", "exec", "acquire", "wait", "timestamp",
                            "stamp", "release", "undo", "done"}]
  BY DEF ListInv, TxnInv, TypeInv, TypeOK
<1>2. /\ pc[t] = "wait" /\ ready[t]
      /\ accesses' = [accesses EXCEPT ![t] = Append(accesses[t], e)]
      /\ request' = [request EXCEPT ![t] = NoRequest]
      /\ pc' = [pc EXCEPT ![t] = "exec"]
      /\ UNCHANGED <<ready, finished, startTs>>
  BY DEF NewAccess
<1>3. e \in Entry
  <2>1. request[t] \in Request
    BY <1>1, <1>2 DEF Requested
  <2>2. /\ r \in Record /\ request[t].type \in {"READ_ONLY", "READ_WRITE"}
        /\ ts[r] \in Timestamp /\ word[r] \in Writer
    BY <1>1, <2>1 DEF Request, Record, TypeOK
  <2> QED
    BY <2>2 DEF Entry
<1>4. e.record = request[t].record /\ e.type = request[t].type
  OBVIOUS
<1> HIDE DEF e, n
<1>5. /\ DOMAIN accesses'[t] = DOMAIN accesses[t] \cup {n}
      /\ accesses'[t][n] = e
      /\ \A i \in DOMAIN accesses[t] : accesses'[t][i] = accesses[t][i]
  BY <1>1, <1>2, <1>3, EntryAppended DEF n
<1>6. \A u \in Thread : u # t =>
        /\ accesses'[u] = accesses[u] /\ request'[u] = request[u]
        /\ pc'[u] = pc[u]
  BY <1>1, <1>2
<1>7. pc'[t] = "exec"
  BY <1>1, <1>2
<1>8. ASSUME NEW type PROVE HoldsAs(t, q, type)' = HoldsAs(t, q, type)
  BY <1>2, <1>4, <1>5, <1>7 DEF HoldsAs
<1>9. ASSUME NEW u \in Thread, u # t, NEW type
      PROVE  HoldsAs(u, q, type)' = HoldsAs(u, q, type)
  BY <1>2, <1>6, <1>9 DEF HoldsAs
<1>10. ASSUME NEW u \in Thread
       PROVE  /\ Waits(u, q)' = Waits(u, q)
              /\ Waits(u, q) => request'[u] = request[u]
  BY <1>2, <1>6, <1>7 DEF Waits
<1> QED
  BY <1>2, <1>8, <1>9, <1>10 DEF SameParties

(***************************************************************************)
(* No step outside AcquireLock, NewAccess and ReleaseLock makes or ends a  *)
(* party of a lock; the release of a fresh record does not either.         *)
(***************************************************************************)
LEMMA SteppedParties ==
  ASSUME ListInv, NEW t \in Thread,
         \/ Execute(t) \/ ReadRecord(t) \/ UpdateRecord(t)
         \/ CommitTransaction(t) \/ GetMonotoneTimestamp(t) \/ SetTimestamp(t)
         \/ EndStamp(t) \/ Restore(t)
         \/ ReleaseLock(t) /\ Current(t).type = "INSERT_ONLY"
         \/ ReturnCommitted(t) \/ ReturnAborted(t),
         NEW q \in Record
  PROVE  SameParties(q)
<1>1. /\ TxnInv /\ TypeOK /\ FinishedLater
      /\ accesses \in [Thread -> Seq(Entry)]
      /\ request \in [Thread -> Request \cup {NoRequest}]
      /\ finished \in [Thread -> Nat]
      /\ pc \in [Thread -> {"idle", "exec", "acquire", "wait", "timestamp",
                            "stamp", "release", "undo", "done"}]
  BY DEF ListInv, TxnInv, TypeInv, TypeOK
<1>2. /\ \A i \in DOMAIN accesses[t] : i \in 1..Len(accesses[t])
      /\ Len(accesses[t]) \in Nat
  BY <1>1, LenProperties
<1>3. CASE Execute(t) \/ CommitTransaction(t) \/ GetMonotoneTimestamp(t)
  <2>1. /\ pc[t] \notin {"wait", "release", "undo"}
        /\ pc'[t] \notin {"wait", "release", "undo"}
        /\ \A u \in Thread : u # t => pc'[u] = pc[u]
        /\ UNCHANGED <<ready, startTs, request, accesses, finished>>
    BY <1>1, <1>3 DEF Execute, CommitTransaction, GetMonotoneTimestamp, txn
  <2>2. ASSUME NEW u \in Thread, NEW type
        PROVE  HoldsAs(u, q, type)' = HoldsAs(u, q, type)
    BY <2>1 DEF HoldsAs
  <2>3. \A u \in Thread : Waits(u, q)' = Waits(u, q)
    BY <2>1 DEF Waits
  <2> QED
    BY <2>1, <2>2, <2>3 DEF SameParties
<1>4. CASE ReadRecord(t) \/ UpdateRecord(t)
  <2>1. /\ \A u \in Thread : DOMAIN accesses'[u] = DOMAIN accesses[u]
        /\ \A u \in Thread : \A i \in DOMAIN accesses[u] :
             /\ accesses'[u][i].record = accesses[u][i].record
             /\ accesses'[u][i].type = accesses[u][i].type
    BY <1>1, <1>4, RecordsKept
  <2>2. UNCHANGED <<pc, ready, startTs, request, finished>>
    BY <1>4 DEF ReadRecord, UpdateRecord
  <2>3. ASSUME NEW u \in Thread, NEW type
        PROVE  HoldsAs(u, q, type)' = HoldsAs(u, q, type)
    BY <2>1, <2>2 DEF HoldsAs
  <2>4. \A u \in Thread : Waits(u, q)' = Waits(u, q)
    BY <2>2 DEF Waits
  <2> QED
    BY <2>2, <2>3, <2>4 DEF SameParties
<1>5. CASE SetTimestamp(t) \/ Restore(t)
  <2>1. /\ SetTimestamp(t) => pc[t] = "stamp"
        /\ \A u \in Thread : u # t => finished'[u] = finished[u]
        /\ Restore(t) => finished' = finished
        /\ UNCHANGED <<pc, ready, startTs, request, accesses>>
    BY <1>1, <1>5 DEF SetTimestamp, Restore
  <2>2. ASSUME NEW u \in Thread, NEW type
        PROVE  HoldsAs(u, q, type)' = HoldsAs(u, q, type)
    BY <1>5, <2>1 DEF HoldsAs
  <2>3. \A u \in Thread : Waits(u, q)' = Waits(u, q)
    BY <2>1 DEF Waits
  <2> QED
    BY <2>1, <2>2, <2>3 DEF SameParties
<1>6. CASE EndStamp(t)
  <2>1. /\ pc[t] = "stamp" /\ pc'[t] = "release" /\ finished'[t] = 0
        /\ \A u \in Thread : u # t =>
             pc'[u] = pc[u] /\ finished'[u] = finished[u]
        /\ UNCHANGED <<ready, startTs, request, accesses>>
    BY <1>1, <1>6 DEF EndStamp
  <2>2. \A i \in DOMAIN accesses[t] : 0 < i
    BY <1>2
  <2>3. ASSUME NEW type PROVE HoldsAs(t, q, type)' = HoldsAs(t, q, type)
    BY <2>1, <2>2 DEF HoldsAs
  <2>4. ASSUME NEW u \in Thread, u # t, NEW type
        PROVE  HoldsAs(u, q, type)' = HoldsAs(u, q, type)
    BY <2>1, <2>4 DEF HoldsAs
  <2>5. \A u \in Thread : Waits(u, q)' = Waits(u, q)
    BY <2>1 DEF Waits
  <2> QED
    BY <2>1, <2>3, <2>4, <2>5 DEF SameParties
<1>7. CASE ReleaseLock(t) /\ Current(t).type = "INSERT_ONLY"
  <2> DEFINE k == finished[t] + 1
  <2>1. /\ k \in DOMAIN accesses[t] /\ pc[t] \in {"release", "undo"}
        /\ finished' = [finished EXCEPT ![t] = k]
        /\ UNCHANGED <<pc, request, accesses, startTs>>
    BY <1>1, <1>7, Releasing
  <2>2. ready' = ready /\ accesses[t][k].type = "INSERT_ONLY"
    BY <1>7 DEF ReleaseLock, Current
  <2>3. ASSUME NEW i \in DOMAIN accesses[t], i # k
        PROVE  finished[t] < i <=> k < i
    BY <1>1, <1>2, <2>3
  <2> HIDE DEF k
  <2>4. /\ finished'[t] = k
        /\ \A u \in Thread : u # t => finished'[u] = finished[u]
    BY <1>1, <2>1
  <2>5. ASSUME NEW type \in {"READ_ONLY", "READ_WRITE"}
        PROVE  HoldsAs(t, q, type)' = HoldsAs(t, q, type)
    BY <2>1, <2>2, <2>3, <2>4 DEF HoldsAs
  <2>6. ASSUME NEW u \in Thread, u # t, NEW type
        PROVE  HoldsAs(u, q, type)' = HoldsAs(u, q, type)
    BY <2>1, <2>2, <2>4, <2>6 DEF HoldsAs
  <2>7. \A u \in Thread : Waits(u, q)' = Waits(u, q)
    BY <2>1, <2>2 DEF Waits
  <2> QED
    BY <2>1, <2>5, <2>6, <2>7 DEF SameParties
<1>8. CASE ReturnCommitted(t) \/ ReturnAborted(t)
  <2>1. /\ pc[t] \in {"release", "undo"} /\ finished[t] = Len(accesses[t])
        /\ UNCHANGED <<ready, startTs>>
    BY <1>8 DEF ReturnCommitted, ReturnAborted
  <2>2. accesses'[t] = <<>> /\ pc'[t] \in {"idle", "done"}
    BY <1>1, <1>8 DEF ReturnCommitted, ReturnAborted, ClearAccess
  <2>3. \A u \in Thread : u # t =>
          /\ accesses'[u] = accesses[u] /\ finished'[u] = finished[u]
          /\ request'[u] = request[u] /\ pc'[u] = pc[u]
    BY <1>1, <1>8 DEF ReturnCommitted, ReturnAborted, ClearAccess
  <2>4. \A i \in DOMAIN accesses[t] : ~(finished[t] < i)
    BY <1>2, <2>1
  <2>5. DOMAIN accesses'[t] = {}
    BY <2>2
  <2>6. ASSUME NEW type PROVE HoldsAs(t, q, type)' = HoldsAs(t, q, type)
    BY <2>1, <2>2, <2>4, <2>5 DEF HoldsAs
  <2>7. ASSUME NEW u \in Thread, u # t, NEW type
        PROVE  HoldsAs(u, q, type)' = HoldsAs(u, q, type)
    BY <2>1, <2>3, <2>7 DEF HoldsAs
  <2>8. ASSUME NEW u \in Thread
        PROVE  /\ Waits(u, q)' = Waits(u, q)
               /\ Waits(u, q) => request'[u] = request[u]
    BY <2>1, <2>2, <2>3 DEF Waits
  <2> QED
    BY <2>1, <2>6, <2>7, <2>8 DEF SameParties
<1> QED
  BY <1>3, <1>4, <1>5, <1>6, <1>7, <1>8

(***************************************************************************)
(* Every step keeps the lists: AcquireLock and ReleaseLock by the lemmas   *)
(* above, any other because it leaves parties and lists alone.             *)
(***************************************************************************)
LEMMA NextLists == ListInv /\ [Next]_vars => ListInv'
<1> SUFFICES ASSUME ListInv, [Next]_vars PROVE ListInv'
  OBVIOUS
<1>1. TxnInv'
  BY NextTxn DEF ListInv
<1>2. ASSUME \A q \in Record : SameParties(q),
             UNCHANGED <<owners, waiters, lockType>>
      PROVE  \A q \in Record : RecordLists(q)'
  BY <1>2, RecordFrame DEF ListInv
<1>3. ASSUME NEW t \in Thread, NEW r \in Fresh, InsertRecord(t, r)
      PROVE  \A q \in Record : RecordLists(q)'
  <2>1. UNCHANGED <<owners, waiters, lockType>>
    BY <1>3 DEF InsertRecord, locks
  <2> QED
    BY <1>2, <1>3, <2>1, InsertedParties
<1>4. ASSUME NEW t \in Thread, NEW r \in Indexed,
             NEW type \in {"READ_ONLY", "READ_WRITE"}, SelectRecordCC(t, r, type)
      PROVE  \A q \in Record : RecordLists(q)'
  <2>1. UNCHANGED <<owners, waiters, lockType>>
    BY <1>4 DEF SelectRecordCC, locks
  <2> QED
    BY <1>2, <1>4, <2>1, SelectedParties
<1>5. ASSUME NEW t \in Thread, NewAccess(t)
      PROVE  \A q \in Record : RecordLists(q)'
  <2>1. UNCHANGED <<owners, waiters, lockType>>
    BY <1>5 DEF NewAccess, locks
  <2> QED
    BY <1>2, <1>5, <2>1, EnteredParties
<1>6. ASSUME NEW t \in Thread,
             \/ Execute(t) \/ ReadRecord(t) \/ UpdateRecord(t)
             \/ CommitTransaction(t) \/ GetMonotoneTimestamp(t)
             \/ SetTimestamp(t) \/ EndStamp(t) \/ Restore(t)
             \/ ReleaseLock(t) /\ Current(t).type = "INSERT_ONLY"
             \/ ReturnCommitted(t) \/ ReturnAborted(t)
      PROVE  \A q \in Record : RecordLists(q)'
  <2>1. UNCHANGED <<owners, waiters, lockType>>
    BY <1>6
       DEF Execute, ReadRecord, UpdateRecord, CommitTransaction,
           GetMonotoneTimestamp, SetTimestamp, EndStamp, Restore, ReleaseLock,
           ReturnCommitted, ReturnAborted, locks
  <2>2. \A q \in Record : SameParties(q)
    BY <1>6, SteppedParties
  <2> QED
    BY <1>2, <2>1, <2>2
<1>7. ASSUME NEW t \in Thread, ReleaseLock(t), Current(t).type # "INSERT_ONLY"
      PROVE  \A q \in Record : RecordLists(q)'
  <2>1. Current(t).record \in Record
    BY <1>7, Releasing DEF ListInv, Entry
  <2>2. HandOver(t, Current(t).record)
    BY <1>7 DEF ReleaseLock
  <2> QED
    BY <1>7, <2>1, <2>2, OwnerRemoved, LockHandedOver
<1>8. CASE AdvanceEpoch \/ UNCHANGED vars
  <2>1. UNCHANGED <<owners, waiters, lockType, pc, ready, startTs, request,
                    accesses, finished>>
    BY <1>8 DEF AdvanceEpoch, vars, locks, txn
  <2>2. \A q \in Record : SameParties(q)
    BY <2>1 DEF SameParties, HoldsAs, Waits
  <2> QED
    BY <1>1, <1>2, <2>1, <2>2 DEF ListInv
<1>9. \A q \in Record : RecordLists(q)'
  BY <1>3, <1>4, <1>5, <1>6, <1>7, <1>8, LockAcquired, LockWaitConstants
     DEF LockWaitConstants, Next, Step, Select, Joined, ListInv
<1> QED
  BY <1>1, <1>9 DEF ListInv, Record

(***************************************************************************)
(* The lists of every lock agree with its parties in every reachable       *)
(* state.                                                                  *)
(***************************************************************************)
LEMMA ListsInvariant == Spec => []ListInv
BY InitLists, NextLists, PTL DEF Spec

(***************************************************************************)
(* Wait-die: whoever waits for a lock is older than its owners and than    *)
(* the waiters before it (WaitsForYounger), so that no threads wait for    *)
(* each other in a circle, however many threads and records there are.     *)
(***************************************************************************)
THEOREM WaitsForYoungerOnly == Spec => []WaitsForYounger
<1>1. ListInv => WaitsForYounger
  BY DEF ListInv, RecordLists, WaitsForYounger
<1> QED
  BY <1>1, ListsInvariant, PTL

(***************************************************************************)
(* The readers and writers of ListsAgree are those that hold the lock.     *)
(***************************************************************************)
LEMMA PartiesAgree ==
  ASSUME TypeOK, NEW r \in Record
  PROVE  /\ Readers(r) = {t \in Thread : HoldsAs(t, r, "READ_ONLY")}
         /\ Writers(r) = {t \in Thread : HoldsAs(t, r, "READ_WRITE")}
         /\ Waiting(r) = {t \in Thread : Waits(t, r)}
<1>1. accesses \in [Thread -> Seq(Entry)] /\ finished \in [Thread -> Nat]
  BY DEF TypeOK
<1>2. ASSUME NEW t \in Thread, NEW type \in {"READ_ONLY", "READ_WRITE"}
      PROVE  HoldsAs(t, r, type) <=>
               \E e \in Locked(t) \cup Granted(t) :
                 e.record = r /\ e.type = type
  <2>1. \A i \in DOMAIN accesses[t] : i \in Nat /\ finished[t] \in Nat
    BY <1>1, LenProperties
  <2>2. (\E e \in Locked(t) : e.record = r /\ e.type = type) <=>
        \E i \in DOMAIN accesses[t] :
          /\ accesses[t][i].record = r /\ accesses[t][i].type = type
          /\ pc[t] \in {"release", "undo"} => finished[t] < i
    BY <2>1 DEF Locked
  <2>3. (\E e \in Granted(t) : e.record = r /\ e.type = type) <=>
          /\ pc[t] = "wait" /\ ready[t]
          /\ request[t].record = r /\ request[t].type = type
    BY DEF Granted
  <2> QED
    BY <2>2, <2>3 DEF HoldsAs
<1> QED
  BY <1>2 DEF Readers, Writers, Waiting, Waits

(***************************************************************************)
(* The lists of a lock are the threads that own it and that spin for it    *)
(* (ListsAgree): no wake-up is lost, ReleaseLock finds its entry, and a    *)
(* writer is alone, for every number of threads and records.               *)
(***************************************************************************)
THEOREM ListsAreParties == Spec => []ListsAgree
<1>1. ListInv => ListsAgree
  <2> SUFFICES ASSUME ListInv, NEW r \in Record PROVE ListsAgreeAt(r)
    BY DEF ListsAgree
  <2>1. /\ TxnInv /\ TypeOK /\ startTs \in [Thread -> Nat]
        /\ OwnersAgree(r) /\ QueueAgrees(r) /\ ModeAgrees(r)
    BY DEF ListInv, RecordLists, TxnInv, TypeInv, TypeOK
  <2>2. /\ Readers(r) = {t \in Thread : HoldsAs(t, r, "READ_ONLY")}
        /\ Writers(r) = {t \in Thread : HoldsAs(t, r, "READ_WRITE")}
        /\ Waiting(r) = {t \in Thread : Waits(t, r)}
    BY <2>1, PartiesAgree
  <2>3. Readers(r) \cup Writers(r) = Holders(r)
    BY <2>2 DEF Holders, Holds
  <2>4. owners[r] = {startTs[t] : t \in Holders(r)}
    BY <2>1 DEF OwnersAgree
  <2>5. IsFiniteSet(Holders(r)) /\ Cardinality(owners[r]) = Cardinality(Holders(r))
    <3> DEFINE f == [t \in Holders(r) |-> startTs[t]]
    <3>1. IsFiniteSet(Holders(r))
      BY LockWaitConstants, FS_Subset DEF LockWaitConstants, Holders
    <3>2. \A t, u \in Holders(r) : startTs[t] = startTs[u] => t = u
      BY <2>1, Parties DEF Holders
    <3>3. f \in Bijection(Holders(r), owners[r])
      BY <2>4, <3>2 DEF Bijection, Injection, Surjection, IsInjective
    <3>4. ExistsBijection(Holders(r), owners[r])
      BY <3>3 DEF ExistsBijection
    <3> QED
      BY <3>1, <3>4, FS_Bijection
  <2>6. {waiters[r][i].thread : i \in DOMAIN waiters[r]} = Waiting(r)
    BY <2>1, <2>2 DEF QueueAgrees, Queued
  <2>7. lockType[r] = "WRITE_LOCK" <=> Writers(r) # {}
    <3>1. ASSUME lockType[r] = "WRITE_LOCK" PROVE Writers(r) # {}
      <4>1. PICK t \in Holders(r) : TRUE
        BY <2>1, <3>1 DEF ModeAgrees
      <4>2. ~HoldsAs(t, r, "READ_ONLY") /\ t \in Thread
        BY <2>1, <3>1 DEF ModeAgrees, Holders
      <4> QED
        BY <2>2, <4>1, <4>2 DEF Holders, Holds
    <3> QED
      BY <2>1, <2>2, <3>1 DEF ModeAgrees
  <2>8. lockType[r] = "NO_LOCK" <=> owners[r] = {}
    BY <2>1, <2>4 DEF ModeAgrees
  <2>9. ASSUME Writers(r) # {} PROVE Cardinality(owners[r]) = 1
    <3>1. PICK t \in Thread : Holders(r) = {t}
      BY <2>1, <2>2, <2>9 DEF ModeAgrees
    <3> QED
      BY <2>5, <3>1, FS_Singleton
  <2> QED
    BY <2>3, <2>4, <2>5, <2>6, <2>7, <2>8, <2>9 DEF ListsAgreeAt
<1> QED
  BY <1>1, ListsInvariant, PTL
=============================================================================
