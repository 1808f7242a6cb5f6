------------------------------ MODULE ToProofs ------------------------------
(***************************************************************************)
(* What timestamp ordering guarantees for every number of threads and      *)
(* records, every length of the batches and every bound on the timestamps: *)
(* queues that agree with the running transactions, and a serial execution *)
(* in the order of the start timestamps.                                   *)
(***************************************************************************)
EXTENDS To, WellFoundedInduction, SequenceTheorems, TLAPS

-----------------------------------------------------------------------------
(***************************************************************************)
(* The inductive invariant.  First the types, those of the lists too.      *)
(***************************************************************************)
Entry ==
  [record : Record, type : {"READ_ONLY", "READ_WRITE", "INSERT_ONLY"},
   seen : Ts \cup {Unread}]

Request == [record : Indexed, type : {"READ_ONLY", "READ_WRITE"}]

Typed ==
  /\ TypeOK
  /\ accesses \in [Thread -> Seq(Entry)]
  /\ \A t \in Thread : Len(accesses[t]) <= MaxAccess
  /\ request \in [Thread -> Request \cup {NoRequest}]
  /\ committed \subseteq
       [ts : Ts, saw : SUBSET (Record \X Ts), wrote : SUBSET Record]

(***************************************************************************)
(* Where a thread is, and what it then has.                                *)
(***************************************************************************)
Selects(t, i) == i \in DOMAIN accesses[t] /\ accesses[t][i].type # "INSERT_ONLY"

Control(t) ==
  /\ pc[t] \in {"idle", "done"} => startTs[t] = 0
  /\ pc[t] \in {"write", "read", "wait", "undo"} => startTs[t] # 0
  /\ startTs[t] = 0 => accesses[t] = <<>>
  /\ pc[t] \notin {"commit", "undo"} => finished[t] = 0
  /\ finished[t] <= Len(accesses[t])
  /\ pc[t] # "done" => left[t] # 0
  /\ ready[t] => pc[t] = "wait"
  /\ pc[t] \in {"write", "read", "wait"} =>
       /\ request[t] \in Request /\ Len(accesses[t]) < MaxAccess
       /\ \A i \in DOMAIN accesses[t] :
            Selects(t, i) /\ accesses[t][i].record # request[t].record
  /\ pc[t] = "write" => request[t].type = "READ_WRITE"

Distinct(t) ==
  \A i, j \in DOMAIN accesses[t] :
    /\ Selects(t, i) => accesses[t][i].record \in Indexed
    /\ Selects(t, i) /\ Selects(t, j) /\ i # j =>
         accesses[t][i].record # accesses[t][j].record

(***************************************************************************)
(* Timestamps are drawn once, and one that is committed is in use by the   *)
(* thread that installs its writes only.                                   *)
(***************************************************************************)
Stamps ==
  /\ \A t \in Thread : startTs[t] < monotone
  /\ \A t, u \in Thread : startTs[t] # 0 /\ startTs[t] = startTs[u] => t = u
  /\ \A a \in committed :
       /\ a.ts < monotone
       /\ \A t \in Thread :
            startTs[t] # 0 /\ startTs[t] = a.ts => pc[t] = "commit"

(***************************************************************************)
(* The marks of a record: nobody has read it at or above an announced      *)
(* write but who announced it, and what is in it was read by its writer.   *)
(***************************************************************************)
Marks ==
  \A r \in Record :
    /\ word[r] = writeTs[r] /\ writeTs[r] <= readTs[r]
    /\ \A x \in writes[r] : readTs[r] <= x

(***************************************************************************)
(* The writes of committed transactions are installed, overwritten or      *)
(* still announced, and what is in a record is such a write.               *)
(***************************************************************************)
WroteAt(x, r) == \E b \in committed : b.ts = x /\ r \in b.wrote

WritesKept ==
  /\ \A r \in Record : word[r] # 0 => WroteAt(word[r], r)
  /\ \A b \in committed : \A r \in b.wrote :
       b.ts <= writeTs[r] \/ b.ts \in writes[r]
  /\ \A t \in Thread : pc[t] = "commit" =>
       \A i \in DOMAIN accesses[t] :
         accesses[t][i].type = "READ_WRITE" =>
           WroteAt(startTs[t], accesses[t][i].record)

(***************************************************************************)
(* A read of version v of r at timestamp x is what the serial execution in *)
(* the order of timestamps has it be, and the record remembers it.         *)
(***************************************************************************)
InOrder(x, r, v) ==
  /\ v < x /\ x <= readTs[r]
  /\ v = 0 \/ WroteAt(v, r)
  /\ \A b \in committed : r \in b.wrote => ~(v < b.ts /\ b.ts < x)

ThreadReads(t) ==
  /\ pc[t] = "wait" /\ ready[t] =>
       /\ local[t] \in Ts /\ InOrder(startTs[t], request[t].record, local[t])
  /\ \A i \in DOMAIN accesses[t] : Selects(t, i) =>
       /\ accesses[t][i].seen \in Ts
       /\ InOrder(startTs[t], accesses[t][i].record, accesses[t][i].seen)

CommittedReads == \A a \in committed : \A s \in a.saw : InOrder(a.ts, s[1], s[2])

ReadsInOrder == (\A t \in Thread : ThreadReads(t)) /\ CommittedReads

ToInv ==
  /\ Typed /\ (\A t \in Thread : Control(t) /\ Distinct(t)) /\ Stamps
  /\ NoCommitBuffered /\ QueuesAgree /\ Marks
  /\ WritesKept /\ ReadsInOrder

-----------------------------------------------------------------------------
(***************************************************************************)
(* Minima and maxima of sets of timestamps.                                *)
(***************************************************************************)

(***************************************************************************)
(* A set of naturals that is not empty has a least element.                *)
(***************************************************************************)
LEMMA LeastNatural ==
  ASSUME NEW S \in SUBSET Nat, S # {}
  PROVE  \E m \in S : \A k \in S : m <= k
<1> DEFINE R == OpToRel(<, Nat)
<1>1. \A x, y \in Nat : <<y, x>> \in R <=> y < x
  BY DEF OpToRel
<1>2. IsWellFoundedOn(R, Nat)
  BY NatLessThanWellFounded
<1> HIDE DEF R
<1>3. PICK m \in S : \A k \in S : ~(<<k, m>> \in R)
  BY <1>2, WFMin
<1>4. ASSUME NEW k \in S PROVE m <= k
  <2>1. m \in Nat /\ k \in Nat
    OBVIOUS
  <2>2. ~(k < m)
    BY <1>1, <1>3, <2>1, Zenon
  <2> QED
    BY <2>1, <2>2
<1> QED
  BY <1>4

(***************************************************************************)
(* What MinTimestamp computes: the least element, or Infinity.             *)
(***************************************************************************)
LEMMA Minimum ==
  ASSUME NEW S \in SUBSET Ts
  PROVE  /\ MinTimestamp(S) \in Nat /\ MinTimestamp(S) <= Infinity
         /\ \A y \in S : MinTimestamp(S) <= y
         /\ S # {} => MinTimestamp(S) \in S
         /\ S = {} => MinTimestamp(S) = Infinity
         /\ \A m \in S : (\A y \in S : m <= y) => MinTimestamp(S) = m
<1>1. MaxTs \in Nat /\ S \in SUBSET Nat /\ Infinity \in Nat
  BY ToConstants DEF ToConstants, Ts, Infinity
<1>2. CASE S = {}
  BY <1>1, <1>2 DEF MinTimestamp
<1>3. CASE S # {}
  <2>1. \E m \in S : \A y \in S : m <= y
    BY <1>1, <1>3, LeastNatural
  <2>2. MinTimestamp(S) \in S /\ \A y \in S : MinTimestamp(S) <= y
    BY <1>3, <2>1 DEF MinTimestamp
  <2>3. MinTimestamp(S) \in Nat /\ MinTimestamp(S) <= MaxTs
    <3>1. MinTimestamp(S) \in Ts
      BY <2>2
    <3> QED
      BY <1>1, <3>1 DEF Ts
  <2>4. MinTimestamp(S) <= Infinity
    BY <1>1, <2>3 DEF Infinity
  <2>5. ASSUME NEW m \in S, \A y \in S : m <= y PROVE MinTimestamp(S) = m
    <3>1. m <= MinTimestamp(S) /\ MinTimestamp(S) <= m /\ m \in Nat
      BY <1>1, <2>2, <2>5
    <3> QED
      BY <2>3, <3>1
  <2> QED
    BY <1>3, <2>2, <2>3, <2>4, <2>5
<1> QED
  BY <1>2, <1>3

(***************************************************************************)
(* The minimum after an element has joined.                                *)
(***************************************************************************)
LEMMA MinimumJoined ==
  ASSUME NEW S \in SUBSET Ts, NEW x \in Ts
  PROVE  MinTimestamp(S \cup {x}) =
           IF x < MinTimestamp(S) THEN x ELSE MinTimestamp(S)
<1> DEFINE U == S \cup {x}
           m == IF x < MinTimestamp(S) THEN x ELSE MinTimestamp(S)
<1>1. MaxTs \in Nat /\ x \in Nat /\ x < Infinity /\ S \in SUBSET Nat
  BY ToConstants DEF ToConstants, Ts, Infinity
<1>2. /\ MinTimestamp(S) \in Nat
      /\ \A y \in S : MinTimestamp(S) <= y
      /\ S # {} => MinTimestamp(S) \in S
      /\ S = {} => MinTimestamp(S) = Infinity
  BY Minimum
<1>3. U \in SUBSET Ts
  OBVIOUS
<1>4. m \in U
  BY <1>1, <1>2
<1>5. ASSUME NEW y \in U PROVE m <= y
  <2>1. y \in Nat
    BY <1>1
  <2> QED
    BY <1>1, <1>2, <2>1
<1> HIDE DEF m, U
<1>6. MinTimestamp(U) = m
  BY <1>3, <1>4, <1>5, Minimum
<1> QED
  BY <1>6 DEF m, U

(***************************************************************************)
(* A set of timestamps that is not empty has a greatest element.           *)
(***************************************************************************)
LEMMA GreatestTimestamp ==
  ASSUME NEW S \in SUBSET Ts, S # {}
  PROVE  \E m \in S : \A y \in S : y <= m
<1> DEFINE Back == {MaxTs - y : y \in S}
<1>1. MaxTs \in Nat /\ \A y \in S : y \in Nat /\ y <= MaxTs
  BY ToConstants DEF ToConstants, Ts
<1>2. Back \in SUBSET Nat /\ Back # {}
  BY <1>1
<1>3. PICK b \in Back : \A k \in Back : b <= k
  BY <1>2, LeastNatural
<1>4. PICK m \in S : b = MaxTs - m
  BY <1>3
<1>5. ASSUME NEW y \in S PROVE y <= m
  <2>1. b <= MaxTs - y
    BY <1>3
  <2> QED
    BY <1>1, <1>4, <2>1
<1> QED
  BY <1>4, <1>5

-----------------------------------------------------------------------------
(***************************************************************************)
(* The queues.                                                             *)
(***************************************************************************)
Waits(u, r) == pc[u] = "wait" /\ ~ready[u] /\ request[u].record = r

(***************************************************************************)
(* Whoever announces a write or waits for a read has drawn a timestamp.    *)
(***************************************************************************)
LEMMA QueuersStamped ==
  ASSUME Typed, NEW t \in Thread, Control(t), NEW r \in Record,
         Announces(t, r) \/ Waits(t, r)
  PROVE  startTs[t] \in Ts \ {0}
<1>1. startTs[t] \in Ts
  BY DEF Typed, TypeOK
<1>2. CASE pc[t] \in {"read", "wait"}
  BY <1>1, <1>2 DEF Control
<1>3. CASE accesses[t] # <<>>
  BY <1>1, <1>3 DEF Control
<1>4. pc[t] \in {"read", "wait"} \/ accesses[t] # <<>>
  BY DEF Announces, Waits
<1> QED
  BY <1>2, <1>3, <1>4

(***************************************************************************)
(* What the queues of a record hold, element by element.                   *)
(***************************************************************************)
LEMMA Queued ==
  ASSUME Typed, \A t \in Thread : Control(t), QueuesAgree, NEW r \in Record
  PROVE  /\ \A x \in writes[r] \cup reads[r] : x \in Ts \ {0}
         /\ writes[r] \in SUBSET Ts /\ reads[r] \in SUBSET Ts
         /\ \A x : x \in writes[r] <=>
              \E u \in Thread : Announces(u, r) /\ startTs[u] = x
         /\ \A x : x \in reads[r] <=>
              \E u \in Thread : Waits(u, r) /\ startTs[u] = x
         /\ minWrite[r] = MinTimestamp(writes[r])
         /\ minRead[r] = MinTimestamp(reads[r])
         /\ \A x \in reads[r] : minWrite[r] < x
<1>1. /\ writes[r] = {startTs[t] : t \in {u \in Thread : Announces(u, r)}}
      /\ reads[r] = {startTs[t] : t \in {u \in Thread :
                       pc[u] = "wait" /\ ~ready[u] /\ request[u].record = r}}
      /\ minWrite[r] = MinTimestamp(writes[r])
      /\ minRead[r] = MinTimestamp(reads[r])
      /\ \A x \in reads[r] : minWrite[r] < x
  BY DEF QueuesAgree
<1>2. \A x : x \in writes[r] <=>
        \E u \in Thread : Announces(u, r) /\ startTs[u] = x
  BY <1>1, Zenon
<1>3. \A x : x \in reads[r] <=>
        \E u \in Thread : Waits(u, r) /\ startTs[u] = x
  BY <1>1, Zenon DEF Waits
<1>4. \A x \in writes[r] \cup reads[r] : x \in Ts \ {0}
  BY <1>2, <1>3, QueuersStamped
<1> QED
  BY <1>1, <1>2, <1>3, <1>4

(***************************************************************************)
(* The queues of a record, element by element.                             *)
(***************************************************************************)
QueueOf(r) ==
  /\ \A x : x \in writes[r] <=>
       \E u \in Thread : Announces(u, r) /\ startTs[u] = x
  /\ \A x : x \in reads[r] <=>
       \E u \in Thread : Waits(u, r) /\ startTs[u] = x
  /\ minWrite[r] = MinTimestamp(writes[r])
  /\ minRead[r] = MinTimestamp(reads[r])
  /\ \A x \in reads[r] : minWrite[r] < x

QueuesFine == \A r \in Record : QueueOf(r)

(***************************************************************************)
(* Queues that hold these elements agree.                                  *)
(***************************************************************************)
LEMMA QueuesOf == QueuesFine => QueuesAgree
<1> USE DEF QueuesFine
<1> SUFFICES ASSUME \A r \in Record : QueueOf(r), NEW r \in Record
             PROVE  /\ writes[r] = {startTs[t] : t \in {u \in Thread : Announces(u, r)}}
                    /\ reads[r] = {startTs[t] : t \in {u \in Thread :
                         pc[u] = "wait" /\ ~ready[u] /\ request[u].record = r}}
                    /\ minWrite[r] = MinTimestamp(writes[r])
                    /\ minRead[r] = MinTimestamp(reads[r])
                    /\ \A x \in reads[r] : minWrite[r] < x
  BY DEF QueuesAgree
<1>1. QueueOf(r)
  OBVIOUS
<1>2. writes[r] = {startTs[t] : t \in {u \in Thread : Announces(u, r)}}
  <2>1. \A x : x \in writes[r] <=>
          \E u \in Thread : Announces(u, r) /\ startTs[u] = x
    BY <1>1 DEF QueueOf
  <2>2. \A x : x \in {startTs[t] : t \in {u \in Thread : Announces(u, r)}} <=>
          \E u \in Thread : Announces(u, r) /\ startTs[u] = x
    BY Zenon
  <2> QED
    BY <2>1, <2>2
<1>3. reads[r] = {startTs[t] : t \in {u \in Thread : Waits(u, r)}}
  <2>1. \A x : x \in reads[r] <=>
          \E u \in Thread : Waits(u, r) /\ startTs[u] = x
    BY <1>1 DEF QueueOf
  <2>2. \A x : x \in {startTs[t] : t \in {u \in Thread : Waits(u, r)}} <=>
          \E u \in Thread : Waits(u, r) /\ startTs[u] = x
    BY Zenon
  <2> QED
    BY <2>1, <2>2
<1> QED
  BY <1>1, <1>2, <1>3 DEF QueueOf, Waits

(***************************************************************************)
(* UpdateBuffer in other words: the write of t leaves the queue, and the   *)
(* reads up to the next announced write are answered.                      *)
(***************************************************************************)
Rest(t, r)     == writes[r] \ {startTs[t]}
Granted(t, r)  == {x \in reads[r] : x <= MinTimestamp(Rest(t, r))}
Wakes(t, r, u) == Waits(u, r) /\ startTs[u] \in Granted(t, r)

Updated(t, r) ==
  /\ writes' = [writes EXCEPT ![r] = Rest(t, r)]
  /\ minWrite' = [minWrite EXCEPT ![r] = MinTimestamp(Rest(t, r))]
  /\ reads' = [reads EXCEPT ![r] = @ \ Granted(t, r)]
  /\ minRead' = [minRead EXCEPT ![r] = MinTimestamp(reads[r] \ Granted(t, r))]
  /\ \E m \in Ts :
       /\ readTs' = [readTs EXCEPT ![r] = m] /\ readTs[r] <= m
       /\ \A x \in Granted(t, r) : x <= m
       /\ \A x \in Rest(t, r) : m <= x
  /\ local' = [u \in Thread |-> IF Wakes(t, r, u) THEN word'[r] ELSE local[u]]
  /\ ready' = [u \in Thread |-> ready[u] \/ Wakes(t, r, u)]

(***************************************************************************)
(* This is what UpdateBuffer does: it grants nothing if the smallest write *)
(* remains, and readTs stays below all that is still announced.            *)
(***************************************************************************)
LEMMA BufferUpdated ==
  ASSUME Typed, \A t \in Thread : Control(t), QueuesAgree, Marks,
         NEW t \in Thread, NEW r \in Record, UpdateBuffer(t, r)
  PROVE  Updated(t, r)
<1> DEFINE newMin == MinTimestamp(Rest(t, r))
           granted == IF newMin = minWrite[r] THEN {}
                      ELSE {x \in reads[r] : x <= newMin}
           last == CHOOSE x \in granted : \A y \in granted : y <= x
<1>1. /\ writes[r] \in SUBSET Ts /\ reads[r] \in SUBSET Ts
      /\ minRead[r] = MinTimestamp(reads[r])
      /\ \A x \in reads[r] : minWrite[r] < x
  BY Queued
<1>2. /\ MaxTs \in Nat /\ Ts \subseteq Nat
      /\ readTs \in [Record -> Ts] /\ minRead \in [Record -> 1..Infinity]
      /\ minWrite \in [Record -> 1..Infinity]
  BY ToConstants DEF ToConstants, Ts, Typed, TypeOK
<1>3. Rest(t, r) \in SUBSET Ts
  BY <1>1 DEF Rest
<1>4. newMin \in Nat /\ \A y \in Rest(t, r) : newMin <= y
  BY <1>3, Minimum
<1>5. granted = Granted(t, r)
  <2>1. CASE newMin = minWrite[r]
    <3>1. ASSUME NEW x \in reads[r] PROVE ~(x <= newMin)
      <4>1. minWrite[r] < x /\ x \in Nat /\ newMin \in Nat
        BY <1>1, <1>2, <1>4
      <4> HIDE DEF newMin
      <4> QED
        BY <2>1, <4>1
    <3> QED
      BY <2>1, <3>1 DEF Granted
  <2>2. CASE newMin # minWrite[r]
    BY <2>2 DEF Granted
  <2> QED
    BY <2>1, <2>2
<1>6. /\ writes' = [writes EXCEPT ![r] = Rest(t, r)]
      /\ minWrite' = [minWrite EXCEPT ![r] = newMin]
      /\ reads' = [reads EXCEPT ![r] = @ \ granted]
      /\ IF granted = {} THEN UNCHANGED <<readTs, minRead>>
         ELSE /\ readTs' = [readTs EXCEPT ![r] = IF @ < last THEN last ELSE @]
              /\ minRead' = [minRead EXCEPT ![r] =
                               MinTimestamp(reads[r] \ granted)]
      /\ local' = [u \in Thread |-> IF u \in {v \in Thread : pc[v] = "wait" /\ ~ready[v]
                    /\ request[v].record = r /\ startTs[v] \in granted}
                    THEN word'[r] ELSE local[u]]
      /\ ready' = [u \in Thread |-> ready[u] \/ u \in {v \in Thread : pc[v] = "wait"
                    /\ ~ready[v] /\ request[v].record = r
                    /\ startTs[v] \in granted}]
  BY Zenon DEF UpdateBuffer, Rest
<1> HIDE DEF granted, newMin
<1>7. /\ local' = [u \in Thread |-> IF Wakes(t, r, u) THEN word'[r] ELSE local[u]]
      /\ ready' = [u \in Thread |-> ready[u] \/ Wakes(t, r, u)]
  BY <1>5, <1>6 DEF Wakes, Waits
<1>8. minRead' = [minRead EXCEPT ![r] = MinTimestamp(reads[r] \ granted)]
  <2>1. CASE granted = {}
    <3>1. reads[r] \ granted = reads[r]
      BY <2>1
    <3> QED
      BY <1>1, <1>2, <1>6, <2>1, <3>1
  <2>2. CASE granted # {}
    BY <1>6, <2>2
  <2> QED
    BY <2>1, <2>2
<1>9. \A x \in Rest(t, r) : readTs[r] <= x
  BY DEF Marks, Rest
<1>10. \E m \in Ts : /\ readTs' = [readTs EXCEPT ![r] = m] /\ readTs[r] <= m
                     /\ \A x \in granted : x <= m
                     /\ \A x \in Rest(t, r) : m <= x
  <2>1. CASE granted = {}
    <3>1. readTs[r] \in Ts /\ readTs[r] <= readTs[r]
      <4>1. readTs[r] \in Ts /\ readTs[r] \in Nat
        BY <1>2
      <4> QED
        BY <4>1
    <3>2. readTs' = [readTs EXCEPT ![r] = readTs[r]]
      BY <1>2, <1>6, <2>1
    <3> QED
      BY <1>9, <2>1, <3>1, <3>2
  <2>2. CASE granted # {}
    <3>1. granted \in SUBSET Ts /\ \A x \in granted : x <= newMin
      BY <1>1, <1>5 DEF Granted, newMin
    <3>2. last \in granted /\ \A y \in granted : y <= last
      BY <2>2, <3>1, GreatestTimestamp
    <3> HIDE DEF last
    <3> DEFINE m == IF readTs[r] < last THEN last ELSE readTs[r]
    <3>3. m \in Ts /\ readTs[r] <= m
      <4>1. /\ last \in Ts /\ readTs[r] \in Ts
            /\ last \in Nat /\ readTs[r] \in Nat
        BY <1>2, <3>1, <3>2
      <4> QED
        BY <4>1
    <3>4. ASSUME NEW x \in granted PROVE x <= m
      <4>1. x <= last /\ x \in Nat /\ last \in Nat /\ readTs[r] \in Nat
        BY <1>2, <3>1, <3>2
      <4> QED
        BY <4>1
    <3>5. ASSUME NEW x \in Rest(t, r) PROVE m <= x
      <4>1. /\ last <= newMin /\ newMin <= x /\ readTs[r] <= x
            /\ x \in Nat /\ last \in Nat /\ newMin \in Nat
        BY <1>2, <1>3, <1>4, <1>9, <3>1, <3>2 DEF newMin
      <4> QED
        BY <4>1
    <3>6. readTs' = [readTs EXCEPT ![r] = m]
      BY <1>6, <2>2
    <3> QED
      BY <3>3, <3>4, <3>5, <3>6
  <2> QED
    BY <2>1, <2>2
<1> QED
  BY <1>5, <1>6, <1>7, <1>8, <1>10 DEF newMin, Updated

(***************************************************************************)
(* A write that is announced is in its queue, and nothing later has been   *)
(* read from or written to the record.                                     *)
(***************************************************************************)
LEMMA AnnouncedInTime ==
  ASSUME ToInv, NEW t \in Thread, NEW r \in Record, Announces(t, r)
  PROVE  /\ startTs[t] \in writes[r] /\ startTs[t] \in Ts \ {0}
         /\ readTs[r] <= startTs[t] /\ ~(startTs[t] < writeTs[r])
<1>1. startTs[t] \in writes[r] /\ startTs[t] \in Ts \ {0}
  BY Queued DEF ToInv
<1>2. /\ readTs[r] \in Nat /\ writeTs[r] \in Nat /\ startTs[t] \in Nat
  <2>1. Ts \subseteq Nat
    BY DEF Ts
  <2> QED
    BY <1>1, <2>1 DEF ToInv, Typed, TypeOK
<1>3. readTs[r] <= startTs[t] /\ writeTs[r] <= readTs[r]
  BY <1>1 DEF ToInv, Marks
<1> QED
  BY <1>1, <1>2, <1>3

(***************************************************************************)
(* The entry that is next to be committed or withdrawn.                    *)
(***************************************************************************)
LEMMA CurrentEntry ==
  ASSUME Typed, NEW t \in Thread, Control(t), pc[t] \in {"commit", "undo"},
         finished[t] < Len(accesses[t])
  PROVE  /\ finished[t] + 1 \in DOMAIN accesses[t]
         /\ Current(t) \in Entry
         /\ Current(t).type = "READ_WRITE" => Announces(t, Current(t).record)
<1>1. accesses[t] \in Seq(Entry) /\ finished[t] \in Nat
  BY ToConstants DEF ToConstants, Typed, TypeOK
<1>2. finished[t] + 1 \in DOMAIN accesses[t]
  BY <1>1, LenProperties
<1>3. Current(t) \in Entry
  BY <1>1, <1>2, ElementOfSeq DEF Current
<1>4. finished[t] + 1 > finished[t]
  BY <1>1
<1> QED
  BY <1>2, <1>3, <1>4 DEF Current, Announces

(***************************************************************************)
(* RequestCommit never drops a write and never puts one off: the writer    *)
(* has read the record, so every announced write and every waiting read is *)
(* later than it.                                                          *)
(***************************************************************************)
LEMMA CommitInstalls ==
  ASSUME ToInv, NEW t \in Thread, RequestCommit(t)
  PROVE  IF Current(t).type = "READ_WRITE"
         THEN Install(t, Current(t).record) /\ UNCHANGED visible
         ELSE UNCHANGED <<content, local, ready>>
<1> DEFINE r == Current(t).record
           i == finished[t] + 1
<1>1. CASE Current(t).type # "READ_WRITE"
  BY <1>1, Zenon DEF RequestCommit
<1>2. CASE Current(t).type = "READ_WRITE"
  <2>1. pc[t] = "commit" /\ finished[t] < Len(accesses[t])
    BY DEF RequestCommit
  <2>2. /\ Announces(t, r) /\ r \in Record /\ i \in DOMAIN accesses[t]
    BY <1>2, <2>1, CurrentEntry DEF ToInv, Entry
  <2>3. /\ startTs[t] \in writes[r] /\ startTs[t] \in Ts \ {0}
        /\ readTs[r] <= startTs[t] /\ ~(startTs[t] < writeTs[r])
    BY <2>2, AnnouncedInTime
  <2>4. startTs[t] <= readTs[r]
    <3>1. Selects(t, i) /\ accesses[t][i].record = r
      BY <1>2, <2>2 DEF Selects, Current
    <3> QED
      BY <2>2, <3>1 DEF ToInv, ReadsInOrder, ThreadReads, InOrder
  <2>5. /\ writes[r] \in SUBSET Ts /\ reads[r] \in SUBSET Ts
        /\ minWrite[r] = MinTimestamp(writes[r])
        /\ minRead[r] = MinTimestamp(reads[r])
        /\ \A x \in reads[r] : minWrite[r] < x
    BY <2>2, Queued DEF ToInv
  <2>6. /\ Ts \subseteq Nat /\ readTs[r] \in Nat /\ MaxTs \in Nat
        /\ Infinity = MaxTs + 1 /\ startTs[t] <= MaxTs /\ Infinity \in Nat
    BY <2>2, <2>3, ToConstants
       DEF ToConstants, ToInv, Typed, TypeOK, Ts, Infinity
  <2>7. \A y \in writes[r] : startTs[t] <= y
    <3>1. \A y \in writes[r] : readTs[r] <= y /\ y \in Nat
      BY <2>2, <2>5, <2>6 DEF ToInv, Marks
    <3> QED
      BY <2>3, <2>4, <2>6, <3>1
  <2>8. minWrite[r] = startTs[t]
    BY <2>3, <2>5, <2>7, Minimum
  <2>9. ~(startTs[t] > minRead[r])
    <3>1. CASE reads[r] = {}
      <4>1. minRead[r] = Infinity
        BY <2>5, <3>1, Minimum
      <4>2. startTs[t] \in Nat
        BY <2>3, <2>6
      <4>3. startTs[t] < Infinity
        BY <2>6, <4>2
      <4> QED
        BY <2>6, <4>1, <4>2, <4>3
    <3>2. CASE reads[r] # {}
      <4>1. minRead[r] \in reads[r] /\ minRead[r] \in Nat
        BY <2>5, <3>2, Minimum
      <4>2. startTs[t] < minRead[r] /\ startTs[t] \in Nat
        BY <2>3, <2>5, <2>6, <2>8, <4>1
      <4> QED
        BY <4>1, <4>2
    <3> QED
      BY <3>1, <3>2
  <2>10. /\ UNCHANGED visible
         /\ IF startTs[t] < writeTs[r] THEN Drop(t, r)
            ELSE IF startTs[t] > minRead[r] THEN BufferCommitRequest(t, r)
            ELSE Install(t, r)
    BY <1>2, Zenon DEF RequestCommit
  <2> QED
    BY <1>2, <2>3, <2>9, <2>10, Zenon
<1> QED
  BY <1>1, <1>2

(***************************************************************************)
(* An update that has announced its write does not come too late to read.  *)
(***************************************************************************)
LEMMA UpdateInTime ==
  ASSUME ToInv, NEW t \in Thread, pc[t] = "read",
         request[t].type = "READ_WRITE"
  PROVE  ~TooLate(t, request[t].record)
<1> DEFINE r == request[t].record
<1>1. request[t] \in Request
  BY DEF ToInv, Control
<1>2. r \in Record /\ request[t] = [record |-> r, type |-> "READ_WRITE"]
  BY <1>1 DEF Request, Record
<1>3. Announces(t, r)
  BY <1>2 DEF Announces
<1> QED
  BY <1>2, <1>3, AnnouncedInTime DEF TooLate

-----------------------------------------------------------------------------
(***************************************************************************)
(* Types.                                                                  *)
(***************************************************************************)

(***************************************************************************)
(* A start timestamp that is drawn is one, and is not 0.                   *)
(***************************************************************************)
LEMMA Drawn ==
  ASSUME Typed, NEW t \in Thread, DrawStartTimestamp(t)
  PROVE  /\ startTs' \in [Thread -> Ts] /\ monotone' \in 1..Infinity
         /\ startTs'[t] # 0
         /\ \A u \in Thread : u # t => startTs'[u] = startTs[u]
         /\ startTs[t] # 0 => startTs' = startTs /\ monotone' = monotone
         /\ startTs[t] = 0 => startTs'[t] = monotone /\ monotone' = monotone + 1
<1>1. /\ MaxTs \in Nat /\ Infinity = MaxTs + 1 /\ Ts = 0..MaxTs
      /\ startTs \in [Thread -> Ts] /\ monotone \in 1..Infinity
  BY ToConstants DEF ToConstants, Infinity, Ts, Typed, TypeOK
<1>2. CASE startTs[t] = 0
  <2>1. monotone \in Ts /\ monotone + 1 \in 1..Infinity /\ monotone # 0
    BY <1>1, <1>2 DEF DrawStartTimestamp
  <2> QED
    BY <1>1, <1>2, <2>1 DEF DrawStartTimestamp
<1>3. CASE startTs[t] # 0
  BY <1>1, <1>3 DEF DrawStartTimestamp
<1> QED
  BY <1>2, <1>3

(***************************************************************************)
(* An entry is added to an access list that is not full.                   *)
(***************************************************************************)
LEMMA EntryAdded ==
  ASSUME Typed, NEW t \in Thread, Len(accesses[t]) < MaxAccess, NEW e \in Entry,
         accesses' = [accesses EXCEPT ![t] = Append(@, e)]
  PROVE  /\ accesses' \in [Thread -> Seq(Entry)]
         /\ \A u \in Thread : Len(accesses'[u]) <= MaxAccess
         /\ \A u \in Thread : u # t => accesses'[u] = accesses[u]
         /\ DOMAIN accesses[t] = 1..Len(accesses[t])
         /\ DOMAIN accesses'[t] = 1..(Len(accesses[t]) + 1)
         /\ Len(accesses[t]) \in Nat /\ Len(accesses'[t]) = Len(accesses[t]) + 1
         /\ \A i \in 1..Len(accesses[t]) : accesses'[t][i] = accesses[t][i]
         /\ accesses'[t][Len(accesses[t]) + 1] = e
<1>1. /\ MaxAccess \in Nat /\ accesses \in [Thread -> Seq(Entry)]
      /\ \A u \in Thread : Len(accesses[u]) <= MaxAccess
  BY ToConstants DEF ToConstants, Typed
<1> DEFINE old == accesses[t]
           new == Append(old, e)
<1>2. /\ old \in Seq(Entry) /\ Len(old) \in Nat /\ DOMAIN old = 1..Len(old)
  BY <1>1, LenProperties
<1>3. /\ new \in Seq(Entry) /\ Len(new) = Len(old) + 1
      /\ \A i \in 1..Len(old) : new[i] = old[i]
      /\ new[Len(old) + 1] = e
  BY <1>2, AppendProperties
<1>4. DOMAIN new = 1..(Len(old) + 1)
  BY <1>3, LenProperties
<1>5. accesses' = [accesses EXCEPT ![t] = new]
  OBVIOUS
<1>6. Len(new) <= MaxAccess
  BY <1>1, <1>2, <1>3
<1> HIDE DEF new
<1>7. accesses' \in [Thread -> Seq(Entry)]
  BY <1>1, <1>3, <1>5
<1>8. accesses'[t] = new /\ \A u \in Thread : u # t => accesses'[u] = accesses[u]
  BY <1>1, <1>5
<1>9. \A u \in Thread : Len(accesses'[u]) <= MaxAccess
  BY <1>1, <1>6, <1>8
<1> QED
  BY <1>2, <1>3, <1>4, <1>7, <1>8, <1>9

(***************************************************************************)
(* UpdateBuffer keeps the queues in their types.                           *)
(***************************************************************************)
LEMMA BufferTyped ==
  ASSUME Typed, \A t \in Thread : Control(t), QueuesAgree, Marks,
         NEW t \in Thread, NEW r \in Record, UpdateBuffer(t, r),
         word' \in [Record -> Ts]
  PROVE  /\ readTs' \in [Record -> Ts] /\ minRead' \in [Record -> 1..Infinity]
         /\ minWrite' \in [Record -> 1..Infinity]
         /\ reads' \in [Record -> SUBSET Ts] /\ writes' \in [Record -> SUBSET Ts]
         /\ local' \in [Thread -> Ts \cup {Unread}]
         /\ ready' \in [Thread -> BOOLEAN]
<1>1. /\ MaxTs \in Nat /\ Infinity = MaxTs + 1 /\ Ts \subseteq Nat
      /\ readTs \in [Record -> Ts] /\ minRead \in [Record -> 1..Infinity]
      /\ minWrite \in [Record -> 1..Infinity]
      /\ reads \in [Record -> SUBSET Ts] /\ writes \in [Record -> SUBSET Ts]
      /\ local \in [Thread -> Ts \cup {Unread}] /\ ready \in [Thread -> BOOLEAN]
  <2>1. MaxTs \in Nat /\ Infinity = MaxTs + 1 /\ Ts \subseteq Nat
    BY ToConstants DEF ToConstants, Infinity, Ts
  <2> QED
    BY <2>1 DEF Typed, TypeOK
<1>2. \A x \in writes[r] \cup reads[r] : x \in Ts \ {0}
  BY Queued
<1> DEFINE left1 == Rest(t, r)
           left2 == reads[r] \ Granted(t, r)
<1>3. /\ left1 \in SUBSET Ts /\ left2 \in SUBSET Ts
      /\ 0 \notin left1 /\ 0 \notin left2
  BY <1>2 DEF Rest
<1>4. \A S \in SUBSET Ts : 0 \notin S => MinTimestamp(S) \in 1..Infinity
  <2> SUFFICES ASSUME NEW S \in SUBSET Ts, 0 \notin S
               PROVE  MinTimestamp(S) \in 1..Infinity
    OBVIOUS
  <2>1. /\ MinTimestamp(S) \in Nat /\ MinTimestamp(S) <= Infinity
        /\ S # {} => MinTimestamp(S) \in S
        /\ S = {} => MinTimestamp(S) = Infinity
    BY Minimum
  <2>2. MinTimestamp(S) # 0
    BY <1>1, <2>1
  <2> QED
    BY <1>1, <2>1, <2>2
<1>5. MinTimestamp(left1) \in 1..Infinity /\ MinTimestamp(left2) \in 1..Infinity
  BY <1>3, <1>4
<1>6. /\ writes' = [writes EXCEPT ![r] = left1]
      /\ minWrite' = [minWrite EXCEPT ![r] = MinTimestamp(left1)]
      /\ reads' = [reads EXCEPT ![r] = left2]
      /\ minRead' = [minRead EXCEPT ![r] = MinTimestamp(left2)]
      /\ \E m \in Ts : readTs' = [readTs EXCEPT ![r] = m]
      /\ local' = [u \in Thread |-> IF Wakes(t, r, u) THEN word'[r] ELSE local[u]]
      /\ ready' = [u \in Thread |-> ready[u] \/ Wakes(t, r, u)]
  <2>1. Updated(t, r)
    BY BufferUpdated
  <2>2. \E m \in Ts : readTs' = [readTs EXCEPT ![r] = m]
    BY <2>1, Zenon DEF Updated
  <2> QED
    BY <2>1, <2>2 DEF Updated
<1> HIDE DEF left1, left2
<1>7. /\ minRead' \in [Record -> 1..Infinity]
      /\ minWrite' \in [Record -> 1..Infinity]
  BY <1>1, <1>5, <1>6
<1>8. /\ reads' \in [Record -> SUBSET Ts] /\ writes' \in [Record -> SUBSET Ts]
      /\ readTs' \in [Record -> Ts]
  BY <1>1, <1>3, <1>6
<1>9. /\ local' \in [Thread -> Ts \cup {Unread}]
      /\ ready' \in [Thread -> BOOLEAN]
  BY <1>1, <1>6
<1> QED
  BY <1>7, <1>8, <1>9

(***************************************************************************)
(* What the entries of a transaction have read and written.                *)
(***************************************************************************)
Saw(t)   == {<<e.record, e.seen>> : e \in
               {x \in Entries(t) : x.type # "INSERT_ONLY"}}
Wrote(t) == {e.record : e \in {x \in Entries(t) : x.type = "READ_WRITE"}}

(***************************************************************************)
(* This is what CommitTransaction enters into the history.                 *)
(***************************************************************************)
LEMMA HistoryTyped ==
  ASSUME Typed, ReadsInOrder, NEW t \in Thread
  PROVE  /\ Saw(t) \in SUBSET (Record \X Ts) /\ Wrote(t) \in SUBSET Record
         /\ \A s \in Saw(t) : \E i \in DOMAIN accesses[t] :
              /\ Selects(t, i) /\ s[1] = accesses[t][i].record
              /\ s[2] = accesses[t][i].seen
         /\ \A r : r \in Wrote(t) <=> \E i \in DOMAIN accesses[t] :
              accesses[t][i].type = "READ_WRITE" /\ accesses[t][i].record = r
<1>1. accesses[t] \in Seq(Entry)
  BY DEF Typed
<1>2. \A i \in DOMAIN accesses[t] : accesses[t][i] \in Entry
  BY <1>1, ElementOfSeq, LenProperties
<1>3. \A i \in DOMAIN accesses[t] : accesses[t][i].record \in Record
  BY <1>2 DEF Entry
<1>4. \A i \in DOMAIN accesses[t] : Selects(t, i) => accesses[t][i].seen \in Ts
  BY DEF ReadsInOrder, ThreadReads
<1>5. \A s \in Saw(t) : \E i \in DOMAIN accesses[t] :
        /\ Selects(t, i) /\ s[1] = accesses[t][i].record
        /\ s[2] = accesses[t][i].seen
        /\ s = <<accesses[t][i].record, accesses[t][i].seen>>
  BY DEF Saw, Entries, Selects
<1>6. \A r : r \in Wrote(t) <=> \E i \in DOMAIN accesses[t] :
        accesses[t][i].type = "READ_WRITE" /\ accesses[t][i].record = r
  BY DEF Wrote, Entries
<1>7. Saw(t) \in SUBSET (Record \X Ts)
  BY <1>3, <1>4, <1>5
<1>8. Wrote(t) \in SUBSET Record
  BY <1>3, <1>6
<1> QED
  BY <1>5, <1>6, <1>7, <1>8

(***************************************************************************)
(* Every step keeps the variables in their types.                          *)
(***************************************************************************)
LEMMA NextTyped == ToInv /\ [Next]_vars => Typed'
<1> SUFFICES ASSUME ToInv, [Next]_vars PROVE Typed'
  OBVIOUS
<1>0. /\ Typed /\ (\A t \in Thread : Control(t)) /\ QueuesAgree /\ Marks
      /\ ReadsInOrder /\ TypeOK
  BY DEF ToInv, Typed
<1>c. /\ MaxTs \in Nat /\ Infinity = MaxTs + 1 /\ Ts = 0..MaxTs
      /\ MaxAccess \in Nat /\ Batch \in Nat \ {0}
  BY ToConstants DEF ToConstants, Infinity, Ts
<1>1. ASSUME NEW t \in Thread, Execute(t) PROVE Typed'
  BY <1>0, <1>1 DEF Typed, TypeOK, Execute, content, txn
<1>2. ASSUME NEW t \in Thread, NEW r \in Record, InsertRecord(t, r) PROVE Typed'
  <2>1. startTs' \in [Thread -> Ts] /\ monotone' \in 1..Infinity
    BY <1>0, <1>2, Drawn DEF InsertRecord
  <2>2. /\ accesses' \in [Thread -> Seq(Entry)]
        /\ \A u \in Thread : Len(accesses'[u]) <= MaxAccess
    <3>1. [record |-> r, type |-> "INSERT_ONLY", seen |-> Unread] \in Entry
      BY DEF Entry
    <3>2. /\ Len(accesses[t]) < MaxAccess
          /\ accesses' = [accesses EXCEPT ![t] = Append(@,
               [record |-> r, type |-> "INSERT_ONLY", seen |-> Unread])]
      BY <1>2 DEF InsertRecord
    <3> QED
      BY <1>0, <3>1, <3>2, EntryAdded
  <2> QED
    BY <1>0, <1>2, <2>1, <2>2 DEF Typed, TypeOK, InsertRecord
<1>3. ASSUME NEW t \in Thread, NEW r \in Record,
             NEW type \in {"READ_ONLY", "READ_WRITE"}, SelectRecordCC(t, r, type)
      PROVE  Typed'
  <2>1. startTs' \in [Thread -> Ts] /\ monotone' \in 1..Infinity
    BY <1>0, <1>3, Drawn DEF SelectRecordCC
  <2>2. [record |-> r, type |-> type] \in Request
    BY <1>3 DEF SelectRecordCC, Request
  <2> QED
    BY <1>0, <1>3, <2>1, <2>2 DEF Typed, TypeOK, SelectRecordCC, content
<1>4. ASSUME NEW t \in Thread, RequestWriteAccess(t) PROVE Typed'
  <2> DEFINE r == request[t].record
  <2>1. r \in Record /\ startTs[t] \in Ts \ {0} /\ startTs[t] \in 1..Infinity
    <3>1. pc[t] = "write"
      BY <1>4 DEF RequestWriteAccess
    <3>2. request[t] \in Request /\ startTs[t] # 0
      BY <1>0, <3>1 DEF Control
    <3>3. r \in Record
      BY <3>2 DEF Request, Record
    <3>4. startTs[t] \in Ts
      BY <1>0 DEF TypeOK
    <3> QED
      BY <1>c, <3>2, <3>3, <3>4
  <2>2. \/ UNCHANGED <<writes, minWrite>>
        \/ /\ writes' = [writes EXCEPT ![r] = @ \cup {startTs[t]}]
           /\ minWrite' = [minWrite EXCEPT ![r] =
                IF startTs[t] < @ THEN startTs[t] ELSE @]
    BY <1>4, Zenon DEF RequestWriteAccess, BufferWriteRequest
  <2>3. /\ writes' \in [Record -> SUBSET Ts]
        /\ minWrite' \in [Record -> 1..Infinity]
    BY <1>0, <2>1, <2>2 DEF TypeOK
  <2>4. pc' = [pc EXCEPT ![t] = "undo"] \/ pc' = [pc EXCEPT ![t] = "read"]
    BY <1>4, Zenon DEF RequestWriteAccess
  <2> QED
    BY <1>0, <1>4, <2>3, <2>4 DEF Typed, TypeOK, RequestWriteAccess, txn
<1>5. ASSUME NEW t \in Thread, RequestReadAccess(t) PROVE Typed'
  <2> DEFINE r == request[t].record
  <2>1. r \in Record /\ startTs[t] \in Ts \ {0} /\ startTs[t] \in 1..Infinity
    <3>1. pc[t] = "read"
      BY <1>5 DEF RequestReadAccess
    <3>2. request[t] \in Request /\ startTs[t] # 0
      BY <1>0, <3>1 DEF Control
    <3>3. r \in Record
      BY <3>2 DEF Request, Record
    <3>4. startTs[t] \in Ts
      BY <1>0 DEF TypeOK
    <3> QED
      BY <1>c, <3>2, <3>3, <3>4
  <2>2. \/ UNCHANGED <<local, ready, readTs, reads, minRead>>
        \/ BufferReadRequest(t, r) \/ ReadDirectly(t, r)
    BY <1>5, Zenon DEF RequestReadAccess
  <2>3. /\ local' \in [Thread -> Ts \cup {Unread}]
        /\ ready' \in [Thread -> BOOLEAN]
        /\ readTs' \in [Record -> Ts] /\ reads' \in [Record -> SUBSET Ts]
        /\ minRead' \in [Record -> 1..Infinity]
    <3>1. CASE BufferReadRequest(t, r)
      BY <1>0, <2>1, <3>1 DEF TypeOK, BufferReadRequest
    <3>2. CASE ReadDirectly(t, r)
      BY <1>0, <2>1, <3>2 DEF TypeOK, ReadDirectly
    <3> QED
      BY <1>0, <2>2, <3>1, <3>2 DEF TypeOK
  <2>4. pc' = [pc EXCEPT ![t] = "undo"] \/ pc' = [pc EXCEPT ![t] = "wait"]
    BY <1>5, Zenon DEF RequestReadAccess
  <2> QED
    BY <1>0, <1>5, <2>3, <2>4 DEF Typed, TypeOK, RequestReadAccess, txn
<1>6. ASSUME NEW t \in Thread, NewAccess(t) PROVE Typed'
  <2> DEFINE e == [record |-> request[t].record, type |-> request[t].type,
                   seen |-> local[t]]
  <2>1. pc[t] = "wait" /\ accesses' = [accesses EXCEPT ![t] = Append(@, e)]
    BY <1>6 DEF NewAccess
  <2>2. request[t] \in Request /\ Len(accesses[t]) < MaxAccess
    BY <1>0, <2>1 DEF Control
  <2>3. e \in Entry
    BY <1>0, <2>2 DEF TypeOK, Request, Entry, Record
  <2> HIDE DEF e
  <2>4. /\ accesses' \in [Thread -> Seq(Entry)]
        /\ \A u \in Thread : Len(accesses'[u]) <= MaxAccess
    BY <1>0, <2>1, <2>2, <2>3, EntryAdded
  <2> QED
    BY <1>0, <1>6, <2>4 DEF Typed, TypeOK, NewAccess, content
<1>7. ASSUME NEW t \in Thread, CommitTransaction(t) PROVE Typed'
  <2>1. committed' = committed \cup
          {[ts |-> startTs[t], saw |-> Saw(t), wrote |-> Wrote(t)]}
    BY <1>7 DEF CommitTransaction, Saw, Wrote
  <2>2. committed' \subseteq
          [ts : Ts, saw : SUBSET (Record \X Ts), wrote : SUBSET Record]
    <3>1. Saw(t) \in SUBSET (Record \X Ts) /\ Wrote(t) \in SUBSET Record
      BY <1>0, HistoryTyped
    <3>2. [ts |-> startTs[t], saw |-> Saw(t), wrote |-> Wrote(t)]
            \in [ts : Ts, saw : SUBSET (Record \X Ts), wrote : SUBSET Record]
      BY <1>0, <3>1 DEF TypeOK
    <3> QED
      BY <1>0, <2>1, <3>2 DEF Typed
  <2> QED
    BY <1>0, <1>7, <2>2 DEF Typed, TypeOK, CommitTransaction, content, txn
<1>8. ASSUME NEW t \in Thread, RequestCommit(t) PROVE Typed'
  <2> DEFINE r == Current(t).record
  <2>1. pc[t] = "commit" /\ finished[t] < Len(accesses[t])
    BY <1>8 DEF RequestCommit
  <2>2. Current(t) \in Entry /\ finished[t] + 1 \in 0..MaxAccess
    <3>1. Len(accesses[t]) \in Nat /\ Len(accesses[t]) <= MaxAccess
      BY <1>0, LenProperties DEF Typed
    <3> QED
      BY <1>0, <1>c, <2>1, <3>1, CurrentEntry DEF TypeOK
  <2>3. finished' \in [Thread -> 0..MaxAccess]
    BY <1>0, <1>8, <2>2 DEF TypeOK, RequestCommit
  <2>4. CASE UNCHANGED <<content, local, ready>>
    BY <1>0, <1>8, <2>3, <2>4 DEF Typed, TypeOK, RequestCommit, content
  <2>5. CASE Install(t, r) /\ UNCHANGED visible
    <3>1. r \in Record
      BY <2>2 DEF Entry
    <3>2. word' \in [Record -> Ts] /\ writeTs' \in [Record -> Ts]
      BY <1>0, <2>5, <3>1 DEF TypeOK, Install
    <3>3. /\ readTs' \in [Record -> Ts] /\ minRead' \in [Record -> 1..Infinity]
          /\ minWrite' \in [Record -> 1..Infinity]
          /\ reads' \in [Record -> SUBSET Ts] /\ writes' \in [Record -> SUBSET Ts]
          /\ local' \in [Thread -> Ts \cup {Unread}]
          /\ ready' \in [Thread -> BOOLEAN]
      BY <1>0, <2>5, <3>1, <3>2, BufferTyped DEF Install
    <3>4. commits' = commits
      BY <2>5 DEF Install
    <3> QED
      BY <1>0, <1>8, <2>3, <2>5, <3>2, <3>3, <3>4
         DEF Typed, TypeOK, RequestCommit
  <2> QED
    BY <1>8, <2>4, <2>5, CommitInstalls
<1>9. ASSUME NEW t \in Thread, RequestAbort(t) PROVE Typed'
  <2> DEFINE r == Current(t).record
  <2>1. pc[t] = "undo" /\ finished[t] < Len(accesses[t])
    BY <1>9 DEF RequestAbort
  <2>2. Current(t) \in Entry /\ finished[t] + 1 \in 0..MaxAccess
    <3>1. Len(accesses[t]) \in Nat /\ Len(accesses[t]) <= MaxAccess
      BY <1>0, LenProperties DEF Typed
    <3> QED
      BY <1>0, <1>c, <2>1, <3>1, CurrentEntry DEF TypeOK
  <2>3. finished' \in [Thread -> 0..MaxAccess]
    BY <1>0, <1>9, <2>2 DEF TypeOK, RequestAbort
  <2>4. CASE UNCHANGED <<content, local, ready>>
    BY <1>0, <1>9, <2>3, <2>4 DEF Typed, TypeOK, RequestAbort, content
  <2>5. CASE Drop(t, r) /\ UNCHANGED visible
    <3>1. r \in Record
      BY <2>2 DEF Entry
    <3>2. UNCHANGED <<word, writeTs, commits>> /\ UpdateBuffer(t, r)
      BY <2>5 DEF Drop
    <3>3. /\ readTs' \in [Record -> Ts] /\ minRead' \in [Record -> 1..Infinity]
          /\ minWrite' \in [Record -> 1..Infinity]
          /\ reads' \in [Record -> SUBSET Ts] /\ writes' \in [Record -> SUBSET Ts]
          /\ local' \in [Thread -> Ts \cup {Unread}]
          /\ ready' \in [Thread -> BOOLEAN]
      <4>1. word' \in [Record -> Ts]
        BY <1>0, <3>2 DEF TypeOK
      <4> QED
        BY <1>0, <3>1, <3>2, <4>1, BufferTyped
    <3> QED
      BY <1>0, <1>9, <2>3, <2>5, <3>2, <3>3 DEF Typed, TypeOK, RequestAbort
  <2> QED
    BY <1>9, <2>4, <2>5, Zenon DEF RequestAbort
<1>10. ASSUME NEW t \in Thread, ReturnCommitted(t) PROVE Typed'
  <2>1. left[t] - 1 \in 0..Batch
    BY <1>0, <1>10, <1>c DEF Control, TypeOK, ReturnCommitted
  <2>2. left' \in [Thread -> 0..Batch]
    BY <1>0, <1>10, <2>1 DEF TypeOK, ReturnCommitted
  <2>3. <<>> \in Seq(Entry) /\ Len(<<>>) <= MaxAccess
    BY <1>c, EmptySeq
  <2>4. \A u \in Thread : Len(accesses'[u]) <= MaxAccess
    BY <1>0, <1>10, <2>3 DEF Typed, ReturnCommitted, ClearAccess
  <2>5. isFinish' \in BOOLEAN
    BY <1>10 DEF ReturnCommitted
  <2>6. UNCHANGED <<content, monotone, local, ready, committed>>
    BY <1>10 DEF ReturnCommitted
  <2>7. /\ accesses' \in [Thread -> Seq(Entry)]
        /\ finished' \in [Thread -> 0..MaxAccess] /\ startTs' \in [Thread -> Ts]
        /\ request' \in [Thread -> Request \cup {NoRequest}]
    BY <1>0, <1>10, <1>c, <2>3 DEF Typed, TypeOK, ReturnCommitted, ClearAccess
  <2>8. pc' \in [Thread -> {"idle", "exec", "write", "read", "wait", "commit",
                            "undo", "done"}]
    BY <1>0, <1>10 DEF TypeOK, ReturnCommitted
  <2> QED
    BY <1>0, <2>2, <2>4, <2>5, <2>6, <2>7, <2>8 DEF Typed, TypeOK, content
<1>11. ASSUME NEW t \in Thread, ReturnAborted(t) PROVE Typed'
  <2>1. <<>> \in Seq(Entry) /\ Len(<<>>) <= MaxAccess
    BY <1>c, EmptySeq
  <2>2. \A u \in Thread : Len(accesses'[u]) <= MaxAccess
    BY <1>0, <1>11, <2>1 DEF Typed, ReturnAborted, ClearAccess
  <2>3. UNCHANGED <<content, monotone, isFinish, left, local, ready, committed>>
    BY <1>11 DEF ReturnAborted
  <2>4. /\ accesses' \in [Thread -> Seq(Entry)]
        /\ finished' \in [Thread -> 0..MaxAccess] /\ startTs' \in [Thread -> Ts]
        /\ request' \in [Thread -> Request \cup {NoRequest}]
    BY <1>0, <1>11, <1>c, <2>1 DEF Typed, TypeOK, ReturnAborted, ClearAccess
  <2>5. pc' \in [Thread -> {"idle", "exec", "write", "read", "wait", "commit",
                            "undo", "done"}]
    BY <1>0, <1>11 DEF TypeOK, ReturnAborted
  <2> QED
    BY <1>0, <2>2, <2>3, <2>4, <2>5 DEF Typed, TypeOK, content
<1>12. CASE UNCHANGED vars
  BY <1>0, <1>12 DEF Typed, TypeOK, vars, content, txn
<1> QED
  BY <1>1, <1>2, <1>3, <1>4, <1>5, <1>6, <1>7, <1>8, <1>9, <1>10, <1>11, <1>12
     DEF Next, Step, Select, Joined

-----------------------------------------------------------------------------
(***************************************************************************)
(* The threads.                                                            *)
(***************************************************************************)

(***************************************************************************)
(* A step of another thread may answer the read that u waits for, and      *)
(* changes nothing else of u.                                              *)
(***************************************************************************)
LEMMA OtherControl ==
  ASSUME NEW u \in Thread, Control(u), Distinct(u),
         pc'[u] = pc[u], startTs'[u] = startTs[u], accesses'[u] = accesses[u],
         finished'[u] = finished[u], left'[u] = left[u],
         request'[u] = request[u], ready'[u] => ready[u] \/ pc[u] = "wait"
  PROVE  Control(u)' /\ Distinct(u)'
BY DEF Control, Distinct, Selects

(***************************************************************************)
(* UpdateBuffer answers only threads that wait.                            *)
(***************************************************************************)
LEMMA AnsweredWaits ==
  ASSUME ToInv, NEW t \in Thread, RequestCommit(t) \/ RequestAbort(t),
         NEW u \in Thread
  PROVE  /\ ready'[u] => ready[u] \/ Waits(u, Current(t).record)
         /\ Waits(u, Current(t).record) \/ local'[u] = local[u]
<1> DEFINE r == Current(t).record
<1>1. \/ UNCHANGED <<content, local, ready>>
      \/ UpdateBuffer(t, r) /\ Current(t).type = "READ_WRITE"
  BY CommitInstalls DEF RequestAbort, Install, Drop
<1>2. CASE UNCHANGED <<content, local, ready>>
  BY <1>2
<1>3. CASE UpdateBuffer(t, r)
  <2>1. /\ pc[t] \in {"commit", "undo"} /\ finished[t] < Len(accesses[t])
    BY DEF RequestCommit, RequestAbort
  <2>2. r \in Record
    BY <2>1, CurrentEntry DEF ToInv, Entry
  <2>3. /\ local' = [v \in Thread |-> IF Wakes(t, r, v) THEN word'[r]
                                                        ELSE local[v]]
        /\ ready' = [v \in Thread |-> ready[v] \/ Wakes(t, r, v)]
    <3>1. Updated(t, r)
      BY <1>3, <2>2, BufferUpdated DEF ToInv
    <3> QED
      BY <3>1, Zenon DEF Updated
  <2> QED
    BY <2>3 DEF Wakes
<1> QED
  BY <1>1, <1>2, <1>3

(***************************************************************************)
(* Every step keeps each thread's state in order.                          *)
(***************************************************************************)
LEMMA NextControl ==
  ToInv /\ [Next]_vars => \A u \in Thread : Control(u)' /\ Distinct(u)'
<1> SUFFICES ASSUME ToInv, [Next]_vars, NEW u \in Thread
             PROVE  Control(u)' /\ Distinct(u)'
  OBVIOUS
<1>0. Typed /\ TypeOK /\ Control(u) /\ Distinct(u) /\ MaxAccess \in Nat
  BY ToConstants DEF ToConstants, ToInv, Typed
<1>a. /\ accesses[u] \in Seq(Entry) /\ Len(accesses[u]) \in Nat
      /\ DOMAIN accesses[u] = 1..Len(accesses[u])
  BY <1>0, LenProperties DEF Typed
<1>e. DOMAIN <<>> = {} /\ Len(<<>>) = 0
  OBVIOUS
<1>1. ASSUME NEW t \in Thread, Execute(t) PROVE Control(u)' /\ Distinct(u)'
  <2>1. CASE u # t
    BY <1>0, <1>1, <2>1, OtherControl DEF Execute, content, txn, TypeOK
  <2>2. CASE u = t
    BY <1>0, <1>1, <2>2
       DEF Execute, content, txn, TypeOK, Control, Distinct, Selects
  <2> QED
    BY <2>1, <2>2
<1>2. ASSUME NEW t \in Thread, NEW r \in Record, InsertRecord(t, r)
      PROVE  Control(u)' /\ Distinct(u)'
  <2> DEFINE e == [record |-> r, type |-> "INSERT_ONLY", seen |-> Unread]
             n == Len(accesses[t])
  <2>1. e \in Entry
    BY DEF Entry
  <2>2. /\ pc[t] = "exec" /\ pc' = pc /\ n < MaxAccess /\ finished' = finished
        /\ accesses' = [accesses EXCEPT ![t] = Append(@, e)]
        /\ left' = left /\ request' = request /\ ready' = ready
        /\ DrawStartTimestamp(t)
    BY <1>2 DEF InsertRecord
  <2> HIDE DEF e
  <2>3. /\ \A v \in Thread : v # t => accesses'[v] = accesses[v]
        /\ DOMAIN accesses[t] = 1..n
        /\ DOMAIN accesses'[t] = 1..(n + 1)
        /\ n \in Nat /\ Len(accesses'[t]) = n + 1
        /\ \A i \in 1..n : accesses'[t][i] = accesses[t][i]
        /\ accesses'[t][n + 1] = e
    BY <1>0, <2>1, <2>2, EntryAdded
  <2>4. startTs'[t] # 0 /\ \A v \in Thread : v # t => startTs'[v] = startTs[v]
    BY <1>0, <2>2, Drawn
  <2>5. CASE u # t
    BY <1>0, <2>2, <2>3, <2>4, <2>5, OtherControl
  <2>6. CASE u = t
    <3>1. finished[t] = 0 /\ (pc[t] # "done" => left[t] # 0)
      BY <1>0, <2>2, <2>6 DEF Control
    <3>2. Control(u)'
      BY <1>0, <2>2, <2>3, <2>4, <2>6, <3>1 DEF Control
    <3>3. e.type = "INSERT_ONLY"
      BY DEF e
    <3>4. \A i \in DOMAIN accesses'[t] : Selects(t, i)' =>
            i \in DOMAIN accesses[t] /\ Selects(t, i)
              /\ accesses'[t][i] = accesses[t][i]
      BY <2>3, <3>3 DEF Selects
    <3>5. Distinct(u)'
      BY <1>0, <2>6, <3>4 DEF Distinct
    <3> QED
      BY <3>2, <3>5
  <2> QED
    BY <2>5, <2>6
<1>3. ASSUME NEW t \in Thread, NEW r \in Record,
             NEW type \in {"READ_ONLY", "READ_WRITE"}, SelectRecordCC(t, r, type)
      PROVE  Control(u)' /\ Distinct(u)'
  <2>1. startTs'[t] # 0 /\ \A v \in Thread : v # t => startTs'[v] = startTs[v]
    BY <1>0, <1>3, Drawn DEF SelectRecordCC
  <2>2. CASE u # t
    BY <1>0, <1>3, <2>1, <2>2, OtherControl DEF SelectRecordCC, content, TypeOK
  <2>3. CASE u = t
    <3>1. /\ request'[t] = [record |-> r, type |-> type] /\ r \in Indexed
          /\ pc[t] = "exec" /\ Len(accesses[t]) < MaxAccess
          /\ pc'[t] = IF type = "READ_WRITE" THEN "write" ELSE "read"
          /\ ready'[t] = FALSE
          /\ accesses' = accesses /\ finished' = finished /\ left' = left
          /\ r \notin Accessed(t) /\ \A e \in Entries(t) : e.type # "INSERT_ONLY"
      BY <1>0, <1>3 DEF SelectRecordCC, TypeOK, Typed
    <3>2. request'[t] \in Request /\ request'[t].record = r
          /\ request'[t].type = type
      BY <3>1 DEF Request
    <3>3. \A i \in DOMAIN accesses[t] :
            Selects(t, i) /\ accesses[t][i].record # r
      BY <3>1 DEF Accessed, Entries, Selects
    <3>4. finished[t] = 0 /\ left[t] # 0
      BY <1>0, <2>3, <3>1 DEF Control
    <3>5. Control(u)'
      BY <1>a, <2>1, <2>3, <3>1, <3>2, <3>3, <3>4 DEF Control, Selects
    <3>6. Distinct(u)'
      BY <1>0, <2>3, <3>1 DEF Distinct, Selects
    <3> QED
      BY <3>5, <3>6
  <2> QED
    BY <2>2, <2>3
<1>4. ASSUME NEW t \in Thread, RequestWriteAccess(t)
      PROVE  Control(u)' /\ Distinct(u)'
  <2>1. /\ pc[t] = "write"
        /\ pc' = [pc EXCEPT ![t] = "undo"] \/ pc' = [pc EXCEPT ![t] = "read"]
        /\ UNCHANGED <<ready, left, txn>>
    BY <1>4, Zenon DEF RequestWriteAccess
  <2>2. CASE u # t
    BY <1>0, <2>1, <2>2, OtherControl DEF txn, TypeOK
  <2>3. CASE u = t
    BY <1>0, <2>1, <2>3 DEF txn, TypeOK, Control, Distinct, Selects
  <2> QED
    BY <2>2, <2>3
<1>5. ASSUME NEW t \in Thread, RequestReadAccess(t)
      PROVE  Control(u)' /\ Distinct(u)'
  <2>1. /\ pc[t] = "read"
        /\ \/ pc' = [pc EXCEPT ![t] = "undo"] /\ ready' = ready
           \/ /\ pc' = [pc EXCEPT ![t] = "wait"]
              /\ ready' = ready \/ ready' = [ready EXCEPT ![t] = TRUE]
        /\ UNCHANGED <<left, txn>>
    BY <1>5 DEF RequestReadAccess, ReadDirectly, BufferReadRequest
  <2>2. CASE u # t
    BY <1>0, <2>1, <2>2, OtherControl DEF txn, TypeOK
  <2>3. CASE u = t
    BY <1>0, <2>1, <2>3 DEF txn, TypeOK, Control, Distinct, Selects
  <2> QED
    BY <2>2, <2>3
<1>6. ASSUME NEW t \in Thread, NewAccess(t) PROVE Control(u)' /\ Distinct(u)'
  <2> DEFINE e == [record |-> request[t].record, type |-> request[t].type,
                   seen |-> local[t]]
             n == Len(accesses[t])
  <2>1. /\ pc[t] = "wait" /\ ready[t]
        /\ accesses' = [accesses EXCEPT ![t] = Append(@, e)]
        /\ request' = [request EXCEPT ![t] = NoRequest]
        /\ ready' = [ready EXCEPT ![t] = FALSE]
        /\ pc' = [pc EXCEPT ![t] = "exec"]
        /\ left' = left /\ startTs' = startTs /\ finished' = finished
    BY <1>6 DEF NewAccess
  <2>2. /\ Control(t) /\ Distinct(t) /\ n < MaxAccess /\ request[t] \in Request
        /\ startTs[t] # 0 /\ finished[t] = 0 /\ left[t] # 0
        /\ \A i \in DOMAIN accesses[t] :
             Selects(t, i) /\ accesses[t][i].record # request[t].record
    BY <2>1 DEF ToInv, Control
  <2>3. e \in Entry /\ e.record = request[t].record /\ e.record \in Indexed
    BY <1>0, <2>2 DEF TypeOK, Request, Entry, Record
  <2> HIDE DEF e
  <2>4. /\ \A v \in Thread : v # t => accesses'[v] = accesses[v]
        /\ DOMAIN accesses[t] = 1..n
        /\ DOMAIN accesses'[t] = 1..(n + 1)
        /\ n \in Nat /\ Len(accesses'[t]) = n + 1
        /\ \A i \in 1..n : accesses'[t][i] = accesses[t][i]
        /\ accesses'[t][n + 1] = e
    BY <1>0, <2>1, <2>2, <2>3, EntryAdded
  <2>5. CASE u # t
    BY <1>0, <2>1, <2>4, <2>5, OtherControl DEF TypeOK, Typed
  <2>6. CASE u = t
    <3>1. /\ pc'[t] = "exec" /\ ready'[t] = FALSE /\ startTs'[t] # 0
          /\ finished'[t] = 0 /\ left'[t] # 0
      BY <1>0, <2>1, <2>2 DEF TypeOK
    <3>2. Control(u)'
      BY <2>4, <2>6, <3>1 DEF Control
    <3>3. \A i \in DOMAIN accesses'[t] :
            \/ /\ i \in DOMAIN accesses[t] /\ accesses'[t][i] = accesses[t][i]
               /\ Selects(t, i)
            \/ i = n + 1 /\ accesses'[t][i].record = request[t].record
      BY <2>2, <2>3, <2>4
    <3>4. Distinct(u)'
      <4> SUFFICES ASSUME NEW i \in DOMAIN accesses'[t],
                          NEW j \in DOMAIN accesses'[t]
                   PROVE  /\ accesses'[t][i].record \in Indexed
                          /\ i # j => accesses'[t][i].record # accesses'[t][j].record
        BY <2>6, Zenon DEF Distinct
      <4>1. \A k \in DOMAIN accesses[t] : accesses[t][k].record \in Indexed
        BY <2>2 DEF Distinct
      <4>2. \A k, l \in DOMAIN accesses[t] : k # l =>
              accesses[t][k].record # accesses[t][l].record
        BY <2>2 DEF Distinct
      <4> QED
        BY <2>2, <2>3, <3>3, <4>1, <4>2
    <3> QED
      BY <3>2, <3>4
  <2> QED
    BY <2>5, <2>6
<1>7. ASSUME NEW t \in Thread, CommitTransaction(t)
      PROVE  Control(u)' /\ Distinct(u)'
  <2>1. CASE u # t
    BY <1>0, <1>7, <2>1, OtherControl DEF CommitTransaction, content, txn, TypeOK
  <2>2. CASE u = t
    BY <1>0, <1>7, <2>2
       DEF CommitTransaction, content, txn, TypeOK, Control, Distinct, Selects
  <2> QED
    BY <2>1, <2>2
<1>8. ASSUME NEW t \in Thread, RequestCommit(t) \/ RequestAbort(t)
      PROVE  Control(u)' /\ Distinct(u)'
  <2>1. /\ pc[t] \in {"commit", "undo"} /\ finished[t] < Len(accesses[t])
        /\ finished' = [finished EXCEPT ![t] = @ + 1]
        /\ UNCHANGED <<pc, left, startTs, request, accesses>>
    BY <1>8 DEF RequestCommit, RequestAbort
  <2>2. ready'[u] => ready[u] \/ pc[u] = "wait"
    BY <1>8, AnsweredWaits DEF Waits
  <2>3. CASE u # t
    BY <1>0, <2>1, <2>2, <2>3, OtherControl DEF TypeOK
  <2>4. CASE u = t
    <3>1. finished'[t] <= Len(accesses'[t])
      BY <1>0, <1>a, <2>1, <2>4 DEF TypeOK
    <3> QED
      BY <1>0, <2>1, <2>2, <2>4, <3>1 DEF Control, Distinct, Selects
  <2> QED
    BY <2>3, <2>4
<1>9. ASSUME NEW t \in Thread, ReturnCommitted(t)
      PROVE  Control(u)' /\ Distinct(u)'
  <2>1. CASE u # t
    BY <1>0, <1>9, <2>1, OtherControl
       DEF ReturnCommitted, ClearAccess, content, TypeOK, Typed
  <2>2. CASE u = t
    <3>1. /\ accesses'[t] = <<>> /\ finished'[t] = 0 /\ startTs'[t] = 0
          /\ pc'[t] \in {"idle", "done"} /\ ready'[t] = ready[t] /\ ~ready[t]
          /\ left'[t] = left[t] - 1
          /\ pc'[t] = "idle" => left[t] # 1
      BY <1>0, <1>9, <2>2
         DEF ReturnCommitted, ClearAccess, LastOfBatch, TypeOK, Typed, Control
    <3>2. left[t] \in Nat
      BY <1>0, ToConstants DEF TypeOK, ToConstants
    <3>3. pc'[t] # "done" => left'[t] # 0
      BY <3>1, <3>2
    <3> QED
      BY <1>e, <2>2, <3>1, <3>3 DEF Control, Distinct, Selects
  <2> QED
    BY <2>1, <2>2
<1>10. ASSUME NEW t \in Thread, ReturnAborted(t)
       PROVE  Control(u)' /\ Distinct(u)'
  <2>1. CASE u # t
    BY <1>0, <1>10, <2>1, OtherControl
       DEF ReturnAborted, ClearAccess, content, TypeOK, Typed
  <2>2. CASE u = t
    <3>1. /\ accesses'[t] = <<>> /\ finished'[t] = 0 /\ startTs'[t] = 0
          /\ pc'[t] \in {"idle", "done"} /\ ready'[t] = ready[t] /\ ~ready[t]
          /\ left'[t] = left[t] /\ left[t] # 0
      BY <1>0, <1>10, <2>2
         DEF ReturnAborted, ClearAccess, TypeOK, Typed, Control
    <3> QED
      BY <1>e, <2>2, <3>1 DEF Control, Distinct, Selects
  <2> QED
    BY <2>1, <2>2
<1>11. CASE UNCHANGED vars
  BY <1>0, <1>11, OtherControl DEF vars, content, txn
<1> QED
  BY <1>1, <1>2, <1>3, <1>4, <1>5, <1>6, <1>7, <1>8, <1>9, <1>10, <1>11
     DEF Next, Step, Select, Joined

-----------------------------------------------------------------------------
(***************************************************************************)
(* The timestamps.                                                         *)
(***************************************************************************)

(***************************************************************************)
(* A step that draws no timestamp and commits no transaction.              *)
(***************************************************************************)
LEMMA StampsFrame ==
  ASSUME Typed, Stamps, committed' = committed, monotone' = monotone,
         \A u \in Thread :
           \/ startTs'[u] = 0
           \/ /\ startTs'[u] = startTs[u]
              /\ pc[u] = "commit" => pc'[u] = "commit"
  PROVE  Stamps'
<1>1. 0 < monotone
  BY ToConstants DEF ToConstants, Infinity, Typed, TypeOK
<1> QED
  BY <1>1 DEF Stamps

(***************************************************************************)
(* Every step keeps the timestamps apart.                                  *)
(***************************************************************************)
LEMMA NextStamps == ToInv /\ [Next]_vars => Stamps'
<1> SUFFICES ASSUME ToInv, [Next]_vars PROVE Stamps'
  OBVIOUS
<1>0. Typed /\ TypeOK /\ Stamps
  BY DEF ToInv, Typed
<1>c. /\ monotone \in Nat \ {0} /\ \A u \in Thread : startTs[u] \in Nat
      /\ \A a \in committed : a.ts \in Nat
  BY <1>0, ToConstants DEF ToConstants, Infinity, Typed, TypeOK, Ts
<1>1. ASSUME NEW t \in Thread, pc[t] = "exec", DrawStartTimestamp(t),
             pc'[t] # "commit", \A u \in Thread : u # t => pc'[u] = pc[u],
             committed' = committed
      PROVE  Stamps'
  <2>1. CASE startTs[t] # 0
    <3>1. startTs' = startTs /\ monotone' = monotone
      BY <1>0, <1>1, <2>1, Drawn
    <3>2. \A u \in Thread : pc[u] = "commit" => pc'[u] = "commit"
      BY <1>1
    <3> QED
      BY <1>0, <1>1, <3>1, <3>2, StampsFrame
  <2>2. CASE startTs[t] = 0
    <3>1. /\ startTs'[t] = monotone /\ monotone' = monotone + 1
          /\ \A u \in Thread : u # t => startTs'[u] = startTs[u]
      BY <1>0, <1>1, <2>2, Drawn
    <3>2. \A u \in Thread : startTs'[u] < monotone'
      BY <1>0, <1>c, <3>1 DEF Stamps
    <3>3. \A u \in Thread : u # t => startTs'[u] # startTs'[t]
      BY <1>0, <1>c, <3>1 DEF Stamps
    <3>4. \A u, v \in Thread :
            startTs'[u] # 0 /\ startTs'[u] = startTs'[v] => u = v
      BY <1>0, <3>1, <3>3 DEF Stamps
    <3>5. \A a \in committed : a.ts < monotone' /\ a.ts # startTs'[t]
      BY <1>0, <1>c, <3>1 DEF Stamps
    <3>6. \A a \in committed : \A u \in Thread :
            startTs'[u] # 0 /\ startTs'[u] = a.ts => pc'[u] = "commit"
      BY <1>0, <1>1, <3>1, <3>5 DEF Stamps
    <3> QED
      BY <1>1, <3>2, <3>4, <3>5, <3>6 DEF Stamps
  <2> QED
    BY <2>1, <2>2
<1>2. ASSUME NEW t \in Thread, NEW r \in Record, InsertRecord(t, r) PROVE Stamps'
  BY <1>1, <1>2 DEF InsertRecord
<1>3. ASSUME NEW t \in Thread, NEW r \in Record,
             NEW type \in {"READ_ONLY", "READ_WRITE"}, SelectRecordCC(t, r, type)
      PROVE  Stamps'
  <2>1. /\ pc'[t] # "commit" /\ \A u \in Thread : u # t => pc'[u] = pc[u]
        /\ pc[t] = "exec" /\ DrawStartTimestamp(t) /\ committed' = committed
    BY <1>0, <1>3 DEF SelectRecordCC, TypeOK
  <2> QED
    BY <1>1, <2>1
<1>4. ASSUME NEW t \in Thread, CommitTransaction(t) PROVE Stamps'
  <2> DEFINE new == [ts |-> startTs[t], saw |-> Saw(t), wrote |-> Wrote(t)]
  <2>1. /\ committed' = committed \cup {new} /\ new.ts = startTs[t]
        /\ startTs' = startTs /\ monotone' = monotone
        /\ pc'[t] = "commit" /\ \A u \in Thread : u # t => pc'[u] = pc[u]
    BY <1>0, <1>4 DEF CommitTransaction, Saw, Wrote, txn, TypeOK
  <2> HIDE DEF new
  <2>2. \A a \in committed' : a.ts < monotone
    BY <1>0, <2>1 DEF Stamps
  <2>3. \A a \in committed' : \A u \in Thread :
          startTs[u] # 0 /\ startTs[u] = a.ts => pc'[u] = "commit"
    BY <1>0, <2>1 DEF Stamps
  <2> QED
    BY <1>0, <2>1, <2>2, <2>3 DEF Stamps
<1>5. ASSUME NEW t \in Thread, ReturnCommitted(t) \/ ReturnAborted(t)
      PROVE  Stamps'
  <2>1. /\ committed' = committed /\ monotone' = monotone
        /\ startTs' = [startTs EXCEPT ![t] = 0]
        /\ \A u \in Thread : u # t => pc'[u] = pc[u]
    BY <1>0, <1>5 DEF ReturnCommitted, ReturnAborted, ClearAccess, TypeOK
  <2>2. startTs'[t] = 0 /\ \A u \in Thread : u # t => startTs'[u] = startTs[u]
    BY <1>0, <2>1 DEF TypeOK
  <2> QED
    BY <1>0, <2>1, <2>2, StampsFrame
<1>6. ASSUME startTs' = startTs, committed' = committed, monotone' = monotone,
             \A u \in Thread : pc[u] = "commit" => pc'[u] = "commit"
      PROVE  Stamps'
  BY <1>0, <1>6, StampsFrame
<1>7. ASSUME NEW t \in Thread,
             \/ Execute(t) \/ RequestWriteAccess(t) \/ RequestReadAccess(t)
             \/ NewAccess(t) \/ RequestCommit(t) \/ RequestAbort(t)
      PROVE  Stamps'
  <2>1. startTs' = startTs /\ committed' = committed /\ monotone' = monotone
    BY <1>7 DEF Execute, RequestWriteAccess, RequestReadAccess, NewAccess,
                RequestCommit, RequestAbort, txn
  <2>2. \A u \in Thread : pc[u] = "commit" => pc'[u] = "commit"
    <3>1. CASE Execute(t) \/ RequestWriteAccess(t)
      BY <1>0, <3>1 DEF Execute, RequestWriteAccess, TypeOK
    <3>2. CASE RequestReadAccess(t) \/ NewAccess(t)
      BY <1>0, <3>2 DEF RequestReadAccess, NewAccess, TypeOK
    <3>3. CASE RequestCommit(t) \/ RequestAbort(t)
      BY <3>3 DEF RequestCommit, RequestAbort
    <3> QED
      BY <1>7, <3>1, <3>2, <3>3
  <2> QED
    BY <1>6, <2>1, <2>2
<1>8. CASE UNCHANGED vars
  BY <1>6, <1>8 DEF vars, txn
<1> QED
  BY <1>2, <1>3, <1>4, <1>5, <1>7, <1>8 DEF Next, Step, Select, Joined

-----------------------------------------------------------------------------
(***************************************************************************)
(* The queues agree with the threads.                                      *)
(***************************************************************************)
LEMMA OldQueues == ToInv => \A r \in Record : QueueOf(r)
BY Queued DEF ToInv, QueueOf

(***************************************************************************)
(* A step after which the same threads queue with the same timestamps.     *)
(***************************************************************************)
LEMMA QueueSame ==
  ASSUME NEW r \in Record, QueueOf(r),
         writes'[r] = writes[r], reads'[r] = reads[r],
         minWrite'[r] = minWrite[r], minRead'[r] = minRead[r],
         \A u \in Thread : Announces(u, r)' = Announces(u, r)
                             /\ Waits(u, r)' = Waits(u, r),
         \A u \in Thread : Announces(u, r) \/ Waits(u, r) =>
                             startTs'[u] = startTs[u]
  PROVE  QueueOf(r)'
<1>1. \A x : x \in writes'[r] <=>
        \E u \in Thread : Announces(u, r)' /\ startTs'[u] = x
  <2>1. \A x : x \in writes'[r] <=>
          \E u \in Thread : Announces(u, r) /\ startTs[u] = x
    BY DEF QueueOf
  <2>2. \A u \in Thread : \A x :
          (Announces(u, r)' /\ startTs'[u] = x) <=> (Announces(u, r) /\ startTs[u] = x)
    BY DEF Announces
  <2> QED
    BY <2>1, <2>2
<1>2. \A x : x \in reads'[r] <=>
        \E u \in Thread : Waits(u, r)' /\ startTs'[u] = x
  <2>1. \A x : x \in reads'[r] <=>
          \E u \in Thread : Waits(u, r) /\ startTs[u] = x
    BY DEF QueueOf
  <2>2. \A u \in Thread : \A x :
          (Waits(u, r)' /\ startTs'[u] = x) <=> (Waits(u, r) /\ startTs[u] = x)
    BY DEF Waits
  <2> QED
    BY <2>1, <2>2
<1>3. /\ minWrite'[r] = MinTimestamp(writes'[r])
      /\ minRead'[r] = MinTimestamp(reads'[r])
      /\ \A x \in reads'[r] : minWrite'[r] < x
  BY DEF QueueOf
<1> QED
  BY <1>1, <1>2, <1>3 DEF QueueOf

(***************************************************************************)
(* Announces and Waits depend on a thread's own state only.                *)
(***************************************************************************)
LEMMA QueuesAlone ==
  ASSUME NEW u \in Thread, pc'[u] = pc[u], request'[u] = request[u],
         accesses'[u] = accesses[u], finished'[u] = finished[u]
  PROVE  \A r : /\ Announces(u, r)' = Announces(u, r)
                /\ ready'[u] = ready[u] => Waits(u, r)' = Waits(u, r)
BY DEF Announces, Waits

(***************************************************************************)
(* What t announces at an entry of its access list, or by its request.     *)
(***************************************************************************)
AnnouncesAt(t, i, r) ==
  /\ i \in DOMAIN accesses[t]
  /\ accesses[t][i].record = r /\ accesses[t][i].type = "READ_WRITE"
  /\ pc[t] \in {"commit", "undo"} => i > finished[t]

Requests(t, r) ==
  pc[t] \in {"read", "wait"} /\ request[t] = [record |-> r, type |-> "READ_WRITE"]

(***************************************************************************)
(* It announces nothing else.                                              *)
(***************************************************************************)
LEMMA AnnouncesSplit ==
  ASSUME NEW t \in Thread, NEW r
  PROVE  /\ Announces(t, r) = (Requests(t, r) \/ \E i : AnnouncesAt(t, i, r))
         /\ Announces(t, r)' = (Requests(t, r)' \/ \E i : AnnouncesAt(t, i, r)')
BY DEF Announces, AnnouncesAt, Requests

(***************************************************************************)
(* The steps of a thread that leave the records alone.                     *)
(***************************************************************************)
LEMMA QuietQueues ==
  ASSUME ToInv, NEW t \in Thread,
         \/ Execute(t) \/ (\E r \in Record : InsertRecord(t, r))
         \/ (\E r \in Record : \E type \in {"READ_ONLY", "READ_WRITE"} :
               SelectRecordCC(t, r, type))
         \/ NewAccess(t) \/ CommitTransaction(t)
         \/ ReturnCommitted(t) \/ ReturnAborted(t),
         NEW q \in Record
  PROVE  /\ Announces(t, q)' = Announces(t, q) /\ Waits(t, q)' = Waits(t, q)
         /\ Announces(t, q) \/ Waits(t, q) => startTs'[t] = startTs[t]
<1>0. /\ Typed /\ TypeOK /\ Control(t) /\ accesses[t] \in Seq(Entry)
      /\ accesses \in [Thread -> Seq(Entry)]
  BY DEF ToInv, Typed
<1>a. DOMAIN <<>> = {}
  OBVIOUS
<1>b. DOMAIN accesses[t] = 1..Len(accesses[t]) /\ Len(accesses[t]) \in Nat
  BY <1>0, LenProperties
<1>1. CASE Execute(t)
  <2>1. /\ accesses' = accesses /\ accesses[t] = <<>> /\ startTs' = startTs
        /\ pc[t] = "idle" /\ pc'[t] = "exec"
    BY <1>0, <1>1 DEF Execute, txn, TypeOK, Control
  <2> QED
    BY <1>a, <2>1 DEF Announces, Waits
<1>2. ASSUME NEW r \in Record, InsertRecord(t, r)
      PROVE  /\ Announces(t, q)' = Announces(t, q) /\ Waits(t, q)' = Waits(t, q)
             /\ Announces(t, q) \/ Waits(t, q) => startTs'[t] = startTs[t]
  <2> DEFINE e == [record |-> r, type |-> "INSERT_ONLY", seen |-> Unread]
             n == Len(accesses[t])
  <2>1. e \in Entry /\ e.type = "INSERT_ONLY"
    BY DEF Entry
  <2>2. /\ pc[t] = "exec" /\ pc' = pc /\ n < MaxAccess
        /\ accesses' = [accesses EXCEPT ![t] = Append(@, e)]
        /\ DrawStartTimestamp(t)
    BY <1>2 DEF InsertRecord
  <2> HIDE DEF e
  <2>3. /\ DOMAIN accesses[t] = 1..n
        /\ DOMAIN accesses'[t] = 1..(n + 1)
        /\ n \in Nat
        /\ \A i \in 1..n : accesses'[t][i] = accesses[t][i]
        /\ accesses'[t][n + 1] = e
    BY <1>0, <2>1, <2>2, EntryAdded
  <2>4. \A i : AnnouncesAt(t, i, q)' = AnnouncesAt(t, i, q)
    BY <2>1, <2>2, <2>3 DEF AnnouncesAt
  <2>5. /\ ~Requests(t, q) /\ ~Requests(t, q)'
        /\ Waits(t, q) = FALSE /\ Waits(t, q)' = FALSE
    BY <2>2 DEF Requests, Waits
  <2>6. Announces(t, q)' = Announces(t, q)
    BY <2>4, <2>5, AnnouncesSplit
  <2>7. Announces(t, q) => startTs'[t] = startTs[t]
    <3>1. Announces(t, q) => accesses[t] # <<>>
      BY <1>a, <2>2 DEF Announces
    <3>2. accesses[t] # <<>> => startTs[t] # 0
      BY <1>0 DEF Control
    <3> QED
      BY <1>0, <2>2, <3>1, <3>2, Drawn
  <2> QED
    BY <2>5, <2>6, <2>7
<1>3. ASSUME NEW r \in Record, NEW type \in {"READ_ONLY", "READ_WRITE"},
             SelectRecordCC(t, r, type)
      PROVE  /\ Announces(t, q)' = Announces(t, q) /\ Waits(t, q)' = Waits(t, q)
             /\ Announces(t, q) \/ Waits(t, q) => startTs'[t] = startTs[t]
  <2>1. /\ pc[t] = "exec" /\ accesses' = accesses /\ DrawStartTimestamp(t)
        /\ pc'[t] = IF type = "READ_WRITE" THEN "write" ELSE "read"
        /\ request'[t] = [record |-> r, type |-> type]
    BY <1>0, <1>3 DEF SelectRecordCC, TypeOK, Typed
  <2>2. \A i : AnnouncesAt(t, i, q)' = AnnouncesAt(t, i, q)
    BY <2>1 DEF AnnouncesAt
  <2>3. request'[t].type = type
    BY <2>1
  <2>4. /\ ~Requests(t, q) /\ ~Requests(t, q)'
        /\ Waits(t, q) = FALSE /\ Waits(t, q)' = FALSE
    <3>1. ~Requests(t, q)'
      BY <2>1, <2>3 DEF Requests
    <3> QED
      BY <2>1, <3>1 DEF Requests, Waits
  <2>5. Announces(t, q)' = Announces(t, q)
    BY <2>2, <2>4, AnnouncesSplit
  <2>6. Announces(t, q) => startTs'[t] = startTs[t]
    <3>1. Announces(t, q) => accesses[t] # <<>>
      BY <1>a, <2>1 DEF Announces
    <3>2. accesses[t] # <<>> => startTs[t] # 0
      BY <1>0 DEF Control
    <3> QED
      BY <1>0, <2>1, <3>1, <3>2, Drawn
  <2> QED
    BY <2>4, <2>5, <2>6
<1>4. CASE NewAccess(t)
  <2> DEFINE e == [record |-> request[t].record, type |-> request[t].type,
                   seen |-> local[t]]
             n == Len(accesses[t])
  <2>1. /\ pc[t] = "wait" /\ ready[t] /\ pc'[t] = "exec" /\ startTs' = startTs
        /\ accesses' = [accesses EXCEPT ![t] = Append(@, e)]
    BY <1>0, <1>4 DEF NewAccess, TypeOK
  <2>2. n < MaxAccess /\ request[t] \in Request
    BY <1>0, <2>1 DEF Control
  <2>3. /\ e \in Entry /\ e.record = request[t].record
        /\ e.type = request[t].type
    BY <1>0, <2>2 DEF TypeOK, Request, Entry, Record
  <2> HIDE DEF e
  <2>4. /\ DOMAIN accesses[t] = 1..n
        /\ DOMAIN accesses'[t] = 1..(n + 1)
        /\ n \in Nat
        /\ \A i \in 1..n : accesses'[t][i] = accesses[t][i]
        /\ accesses'[t][n + 1] = e
    BY <1>0, <2>1, <2>2, <2>3, EntryAdded
  <2>5. \A i : AnnouncesAt(t, i, q)' =
          (AnnouncesAt(t, i, q) \/ (i = n + 1 /\ Requests(t, q)))
    <3> SUFFICES ASSUME NEW i
                 PROVE  AnnouncesAt(t, i, q)' =
                    (AnnouncesAt(t, i, q) \/ (i = n + 1 /\ Requests(t, q)))
      OBVIOUS
    <3>1. Requests(t, q) = (request[t].record = q /\ request[t].type = "READ_WRITE")
      BY <2>1, <2>2 DEF Requests, Request
    <3>2. CASE i = n + 1
      <4>1. AnnouncesAt(t, i, q) = FALSE
        BY <2>4, <3>2 DEF AnnouncesAt
      <4>2. AnnouncesAt(t, i, q)' = (e.record = q /\ e.type = "READ_WRITE")
        <5>1. i \in DOMAIN accesses'[t] /\ accesses'[t][i] = e
          BY <2>4, <3>2
        <5>2. pc'[t] \notin {"commit", "undo"}
          BY <2>1
        <5> QED
          BY <5>1, <5>2 DEF AnnouncesAt
      <4> QED
        BY <2>3, <3>1, <3>2, <4>1, <4>2
    <3>3. CASE i # n + 1
      <4>1. i \in DOMAIN accesses'[t] <=> i \in DOMAIN accesses[t]
        BY <2>4, <3>3
      <4>2. i \in DOMAIN accesses[t] => accesses'[t][i] = accesses[t][i]
        BY <2>4
      <4>3. AnnouncesAt(t, i, q)' = AnnouncesAt(t, i, q)
        BY <2>1, <4>1, <4>2 DEF AnnouncesAt
      <4>4. AnnouncesAt(t, i, q) \in BOOLEAN
        BY DEF AnnouncesAt
      <4> QED
        BY <3>3, <4>3, <4>4
    <3> QED
      BY <3>2, <3>3
  <2>6. ~Requests(t, q)' /\ Waits(t, q) = FALSE /\ Waits(t, q)' = FALSE
    BY <2>1 DEF Requests, Waits
  <2>7. Announces(t, q)' = Announces(t, q)
    BY <2>5, <2>6, AnnouncesSplit
  <2> QED
    BY <2>1, <2>6, <2>7
<1>5. CASE CommitTransaction(t)
  <2>1. /\ pc[t] = "exec" /\ pc'[t] = "commit" /\ finished[t] = 0
        /\ UNCHANGED <<accesses, finished, startTs>>
    BY <1>0, <1>5 DEF CommitTransaction, TypeOK, txn, Control
  <2>2. \A i \in DOMAIN accesses[t] : i > 0
    BY <1>b
  <2> QED
    BY <2>1, <2>2 DEF Announces, Waits
<1>6. CASE ReturnCommitted(t) \/ ReturnAborted(t)
  <2>1. /\ pc[t] \in {"commit", "undo"} /\ finished[t] = Len(accesses[t])
        /\ pc'[t] \in {"idle", "done"} /\ accesses'[t] = <<>>
    BY <1>0, <1>6 DEF ReturnCommitted, ReturnAborted, ClearAccess, TypeOK
  <2>2. \A i \in DOMAIN accesses[t] : ~(i > finished[t])
    BY <1>b, <2>1
  <2> QED
    BY <1>a, <2>1, <2>2 DEF Announces, Waits
<1> QED
  BY <1>1, <1>2, <1>3, <1>4, <1>5, <1>6

(***************************************************************************)
(* RequestWriteAccess: the write joins its queue, or the transaction       *)
(* aborts before it has announced it.                                      *)
(***************************************************************************)
LEMMA WriteQueues ==
  ASSUME ToInv, NEW t \in Thread, RequestWriteAccess(t),
         NEW r, r = request[t].record, NEW x, x = startTs[t]
  PROVE  QueuesAgree' /\ Marks' /\ commits' = commits
<1>0. /\ Typed /\ TypeOK /\ Control(t) /\ \A q \in Record : QueueOf(q)
      /\ Marks
  BY OldQueues DEF ToInv, Typed
<1>1. /\ pc[t] = "write" /\ request' = request /\ accesses' = accesses
      /\ finished' = finished /\ ready' = ready /\ startTs' = startTs
      /\ UNCHANGED <<word, readTs, writeTs, minRead, reads, commits>>
  BY DEF RequestWriteAccess, txn
<1>2. request[t] \in Request /\ request[t].type = "READ_WRITE"
  BY <1>0, <1>1 DEF Control
<1>3. r \in Record /\ x \in Ts /\ request[t] = [record |-> r, type |-> "READ_WRITE"]
  BY <1>0, <1>2 DEF Request, Record, TypeOK
<1>4. pc' = [pc EXCEPT ![t] = "undo"] \/ pc' = [pc EXCEPT ![t] = "read"]
  BY Zenon DEF RequestWriteAccess
<1>5. ASSUME NEW u \in Thread, u # t, NEW q \in Record
      PROVE  Announces(u, q)' = Announces(u, q) /\ Waits(u, q)' = Waits(u, q)
  BY <1>0, <1>1, <1>4, <1>5, QueuesAlone DEF TypeOK
<1>6. ASSUME NEW q \in Record
      PROVE  Waits(t, q)' = Waits(t, q) /\ \A i : AnnouncesAt(t, i, q)' = AnnouncesAt(t, i, q)
  <2>1. pc'[t] \in {"undo", "read"} /\ finished[t] = 0
    BY <1>0, <1>1, <1>4 DEF TypeOK, Control
  <2>2. \A i \in DOMAIN accesses[t] : i > 0
    <3>1. accesses[t] \in Seq(Entry)
      BY <1>0 DEF Typed
    <3> QED
      BY <3>1, LenProperties
  <2> QED
    BY <1>1, <2>1, <2>2 DEF Waits, AnnouncesAt
<1>7. CASE x < readTs[r]
  <2>1. /\ pc' = [pc EXCEPT ![t] = "undo"]
        /\ writes' = writes /\ minWrite' = minWrite
    BY <1>7, Zenon DEF RequestWriteAccess
  <2>2. pc'[t] = "undo"
    BY <1>0, <2>1 DEF TypeOK
  <2>3. ASSUME NEW q \in Record PROVE Announces(t, q)' = Announces(t, q)
    <3>1. ~Requests(t, q) /\ ~Requests(t, q)'
      BY <1>1, <2>2 DEF Requests
    <3> QED
      BY <1>6, <3>1, AnnouncesSplit
  <2>4. ASSUME NEW q \in Record PROVE QueueOf(q)'
    <3>1. \A u \in Thread : Announces(u, q)' = Announces(u, q)
                              /\ Waits(u, q)' = Waits(u, q)
      BY <1>5, <1>6, <2>3
    <3> QED
      BY <1>0, <1>1, <2>1, <3>1, QueueSame
  <2>5. QueuesAgree'
    <3>1. QueuesFine'
      BY <2>4 DEF QueuesFine
    <3> QED
      BY <3>1, QueuesOf, PTL
  <2>6. Marks'
    BY <1>0, <1>1, <2>1 DEF Marks
  <2> QED
    BY <1>1, <2>5, <2>6
<1>8. CASE ~(x < readTs[r])
  <2>1. /\ pc' = [pc EXCEPT ![t] = "read"]
        /\ writes' = [writes EXCEPT ![r] = @ \cup {x}]
        /\ minWrite' = [minWrite EXCEPT ![r] = IF x < @ THEN x ELSE @]
    BY <1>8, Zenon DEF RequestWriteAccess, BufferWriteRequest
  <2>2. pc'[t] = "read"
    BY <1>0, <2>1 DEF TypeOK
  <2>3. ASSUME NEW q \in Record
        PROVE  Announces(t, q)' = (Announces(t, q) \/ q = r)
    <3>1. Requests(t, q) = FALSE /\ Requests(t, q)' = (q = r)
      BY <1>1, <1>3, <2>2 DEF Requests
    <3>2. \A i : AnnouncesAt(t, i, q) \in BOOLEAN
      BY DEF AnnouncesAt
    <3> QED
      BY <1>6, <3>1, <3>2, AnnouncesSplit
  <2>4. ASSUME NEW q \in Record, q # r PROVE QueueOf(q)'
    <3>1. \A u \in Thread : Announces(u, q)' = Announces(u, q)
                              /\ Waits(u, q)' = Waits(u, q)
      <4>1. Announces(t, q) \in BOOLEAN
        BY DEF Announces
      <4> QED
        BY <1>5, <1>6, <2>3, <2>4, <4>1
    <3>2. writes'[q] = writes[q] /\ minWrite'[q] = minWrite[q]
      BY <1>0, <2>1, <2>4 DEF TypeOK
    <3> QED
      BY <1>0, <1>1, <3>1, <3>2, QueueSame
  <2>5. writes'[r] = writes[r] \cup {x}
    BY <1>0, <1>3, <2>1 DEF TypeOK
  <2>6. QueueOf(r)'
    <3>1. \A y : y \in writes'[r] <=>
            \E u \in Thread : Announces(u, r)' /\ startTs'[u] = y
      <4>1. \A y : y \in writes[r] <=>
              \E u \in Thread : Announces(u, r) /\ startTs[u] = y
        BY <1>0, <1>3 DEF QueueOf
      <4>2. \A u \in Thread : u # t => Announces(u, r)' = Announces(u, r)
        BY <1>3, <1>5
      <4>3. Announces(t, r)' = TRUE
        BY <1>3, <2>3
      <4> QED
        BY <1>1, <2>5, <4>1, <4>2, <4>3
    <3>2. \A y : y \in reads'[r] <=>
            \E u \in Thread : Waits(u, r)' /\ startTs'[u] = y
      <4>1. \A u \in Thread : Waits(u, r)' = Waits(u, r)
        BY <1>3, <1>5, <1>6
      <4> QED
        BY <1>0, <1>1, <1>3, <4>1 DEF QueueOf
    <3>3. /\ minWrite[r] = MinTimestamp(writes[r]) /\ writes[r] \in SUBSET Ts
          /\ minRead[r] = MinTimestamp(reads[r])
          /\ \A y \in reads[r] : minWrite[r] < y
          /\ reads[r] \in SUBSET Ts
      BY <1>0, <1>3 DEF QueueOf, TypeOK
    <3>4. minWrite'[r] = IF x < minWrite[r] THEN x ELSE minWrite[r]
      BY <1>0, <1>3, <2>1 DEF TypeOK
    <3>5. minWrite'[r] = MinTimestamp(writes'[r])
      BY <1>3, <2>5, <3>3, <3>4, MinimumJoined
    <3>6. \A y \in reads'[r] : minWrite'[r] < y
      <4>1. /\ x \in Nat /\ minWrite[r] \in Nat /\ reads'[r] = reads[r]
            /\ \A y \in reads[r] : y \in Nat
        BY <1>0, <1>1, <1>3, <3>3 DEF TypeOK, Ts
      <4> QED
        BY <3>3, <3>4, <4>1
    <3> QED
      BY <1>1, <3>1, <3>2, <3>3, <3>5, <3>6 DEF QueueOf
  <2>7. QueuesAgree'
    <3>1. QueuesFine'
      BY <2>4, <2>6 DEF QueuesFine
    <3> QED
      BY <3>1, QueuesOf, PTL
  <2>8. Marks'
    <3>1. readTs[r] <= x
      BY <1>0, <1>3, <1>8 DEF TypeOK, Ts
    <3> QED
      BY <1>0, <1>1, <1>3, <2>1, <3>1 DEF Marks, TypeOK
  <2> QED
    BY <1>1, <2>7, <2>8
<1> QED
  BY <1>7, <1>8

(***************************************************************************)
(* RequestReadAccess: the read joins its queue, or is answered at once     *)
(* because no earlier write is announced, or comes too late.               *)
(***************************************************************************)
LEMMA ReadQueues ==
  ASSUME ToInv, NEW t \in Thread, RequestReadAccess(t),
         NEW r, r = request[t].record, NEW x, x = startTs[t]
  PROVE  QueuesAgree' /\ Marks' /\ commits' = commits
<1>0. /\ Typed /\ TypeOK /\ Control(t) /\ \A q \in Record : QueueOf(q)
      /\ Marks
  BY OldQueues DEF ToInv, Typed
<1>1. /\ pc[t] = "read" /\ request' = request /\ accesses' = accesses
      /\ finished' = finished /\ startTs' = startTs /\ ready[t] = FALSE
      /\ UNCHANGED <<word, writeTs, minWrite, writes, commits>>
  BY <1>0 DEF RequestReadAccess, txn, Control, TypeOK
<1>2. request[t] \in Request
  BY <1>0, <1>1 DEF Control
<1>3. r \in Record /\ x \in Ts
  BY <1>0, <1>2 DEF Request, Record, TypeOK
<1>4. /\ \A u \in Thread : u # t => pc'[u] = pc[u] /\ ready'[u] = ready[u]
      /\ pc'[t] \in {"undo", "wait"}
      /\ pc'[t] = "undo" =>
           /\ TooLate(t, r) /\ ready'[t] = FALSE
           /\ UNCHANGED <<readTs, reads, minRead>>
      /\ pc'[t] = "wait" => ~TooLate(t, r) /\
           IF x > minWrite[r] THEN BufferReadRequest(t, r) ELSE ReadDirectly(t, r)
  <2>1. CASE TooLate(t, r)
    <3>1. /\ pc' = [pc EXCEPT ![t] = "undo"]
          /\ UNCHANGED <<ready, readTs, reads, minRead>>
      BY <2>1, Zenon DEF RequestReadAccess
    <3> QED
      BY <1>0, <1>1, <2>1, <3>1 DEF TypeOK
  <2>2. CASE ~TooLate(t, r)
    <3>1. /\ pc' = [pc EXCEPT ![t] = "wait"]
          /\ IF x > minWrite[r] THEN BufferReadRequest(t, r)
                                ELSE ReadDirectly(t, r)
      BY <2>2, Zenon DEF RequestReadAccess
    <3>2. ready' = ready \/ ready' = [ready EXCEPT ![t] = TRUE]
      BY <3>1 DEF BufferReadRequest, ReadDirectly
    <3> QED
      BY <1>0, <2>2, <3>1, <3>2 DEF TypeOK
  <2> QED
    BY <2>1, <2>2
<1>5. ASSUME NEW u \in Thread, u # t, NEW q \in Record
      PROVE  Announces(u, q)' = Announces(u, q) /\ Waits(u, q)' = Waits(u, q)
  BY <1>0, <1>1, <1>4, <1>5, QueuesAlone
<1>6. ASSUME NEW q \in Record PROVE Announces(t, q)' = Announces(t, q)
  <2>1. \A i : AnnouncesAt(t, i, q)' = AnnouncesAt(t, i, q)
    <3>1. finished[t] = 0
      BY <1>0, <1>1 DEF Control
    <3>2. \A i \in DOMAIN accesses[t] : i > 0
      <4>1. accesses[t] \in Seq(Entry)
        BY <1>0 DEF Typed
      <4> QED
        BY <4>1, LenProperties
    <3> QED
      BY <1>1, <1>4, <3>1, <3>2 DEF AnnouncesAt
  <2>2. Requests(t, q)' = Requests(t, q)
    <3>1. CASE pc'[t] = "wait"
      BY <1>1, <3>1 DEF Requests
    <3>2. CASE pc'[t] = "undo"
      <4>1. request[t].type # "READ_WRITE"
        BY <1>1, <1>4, <3>2, UpdateInTime
      <4> QED
        BY <1>1, <3>2, <4>1 DEF Requests
    <3> QED
      BY <1>4, <3>1, <3>2
  <2> QED
    BY <2>1, <2>2, AnnouncesSplit
<1>7. ASSUME NEW q \in Record
      PROVE  /\ Waits(t, q) = FALSE
             /\ Waits(t, q)' = (q = r /\ pc'[t] = "wait" /\ ~ready'[t])
  BY <1>1 DEF Waits
<1>8. CASE pc'[t] = "undo" \/ (pc'[t] = "wait" /\ ~(x > minWrite[r]))
  <2>1. reads' = reads /\ minRead' = minRead
    BY <1>4, <1>8 DEF ReadDirectly
  <2>2. \A q \in Record : Waits(t, q)' = FALSE
    <3>1. pc'[t] = "undo" \/ ready'[t]
      BY <1>0, <1>4, <1>8 DEF ReadDirectly, TypeOK
    <3> QED
      BY <1>7, <3>1
  <2>3. ASSUME NEW q \in Record PROVE QueueOf(q)'
    <3>1. \A u \in Thread : Announces(u, q)' = Announces(u, q)
                              /\ Waits(u, q)' = Waits(u, q)
      BY <1>5, <1>6, <1>7, <2>2
    <3> QED
      BY <1>0, <1>1, <2>1, <3>1, QueueSame
  <2>4. QueuesAgree'
    <3>1. QueuesFine'
      BY <2>3 DEF QueuesFine
    <3> QED
      BY <3>1, QueuesOf, PTL
  <2>5. Marks'
    <3>1. CASE pc'[t] = "undo"
      BY <1>0, <1>1, <1>4, <3>1 DEF Marks
    <3>2. CASE pc'[t] = "wait" /\ ~(x > minWrite[r])
      <4>1. readTs' = [readTs EXCEPT ![r] = IF @ < x THEN x ELSE @]
        BY <1>4, <3>2 DEF ReadDirectly
      <4>2. /\ x \in Nat /\ minWrite[r] \in Nat /\ writes[r] \in SUBSET Ts
            /\ \A q \in Record : readTs[q] \in Nat /\ writeTs[q] \in Nat
            /\ Ts \subseteq Nat
        BY <1>0, <1>3 DEF TypeOK, Ts
      <4>3. \A y \in writes[r] : x <= y
        <5>1. \A y \in writes[r] : minWrite[r] <= y /\ y \in Nat
          <6>1. minWrite[r] = MinTimestamp(writes[r])
            BY <1>0, <1>3 DEF QueueOf
          <6>2. \A y \in writes[r] : MinTimestamp(writes[r]) <= y
            BY <4>2, Minimum
          <6> QED
            BY <4>2, <6>1, <6>2
        <5> QED
          BY <3>2, <4>2, <5>1
      <4>4. /\ readTs'[r] = IF readTs[r] < x THEN x ELSE readTs[r]
            /\ \A q \in Record : q # r => readTs'[q] = readTs[q]
        BY <1>0, <1>3, <4>1 DEF TypeOK
      <4>5. ASSUME NEW q \in Record
            PROVE  /\ word'[q] = writeTs'[q] /\ writeTs'[q] <= readTs'[q]
                   /\ \A y \in writes'[q] : readTs'[q] <= y
        <5>1. /\ word[q] = writeTs[q] /\ writeTs[q] <= readTs[q]
              /\ \A y \in writes[q] : readTs[q] <= y
          BY <1>0 DEF Marks
        <5>2. CASE q # r
          BY <1>1, <4>4, <5>1, <5>2
        <5>3. CASE q = r
          <6>1. writeTs[r] <= readTs'[r]
            BY <1>3, <4>2, <4>4, <5>1, <5>3
          <6>2. \A y \in writes[r] : readTs'[r] <= y
            BY <4>3, <4>4, <5>1, <5>3
          <6> QED
            BY <1>1, <5>1, <5>3, <6>1, <6>2
        <5> QED
          BY <5>2, <5>3
      <4> QED
        BY <4>5 DEF Marks
    <3> QED
      BY <1>8, <3>1, <3>2
  <2> QED
    BY <1>1, <2>4, <2>5
<1>9. CASE pc'[t] = "wait" /\ x > minWrite[r]
  <2>1. /\ reads' = [reads EXCEPT ![r] = @ \cup {x}]
        /\ minRead' = [minRead EXCEPT ![r] = IF x < @ THEN x ELSE @]
        /\ readTs' = readTs /\ ready' = ready
    BY <1>4, <1>9 DEF BufferReadRequest
  <2>2. ASSUME NEW q \in Record PROVE Waits(t, q)' = (q = r)
    BY <1>1, <1>7, <1>9, <2>1
  <2>3. ASSUME NEW q \in Record, q # r PROVE QueueOf(q)'
    <3>1. \A u \in Thread : Announces(u, q)' = Announces(u, q)
                              /\ Waits(u, q)' = Waits(u, q)
      BY <1>5, <1>6, <1>7, <2>2, <2>3
    <3>2. reads'[q] = reads[q] /\ minRead'[q] = minRead[q]
      BY <1>0, <2>1, <2>3 DEF TypeOK
    <3> QED
      BY <1>0, <1>1, <3>1, <3>2, QueueSame
  <2>4. reads'[r] = reads[r] \cup {x}
    BY <1>0, <1>3, <2>1 DEF TypeOK
  <2>5. QueueOf(r)'
    <3>1. \A y : y \in reads'[r] <=>
            \E u \in Thread : Waits(u, r)' /\ startTs'[u] = y
      <4>1. \A y : y \in reads[r] <=>
              \E u \in Thread : Waits(u, r) /\ startTs[u] = y
        BY <1>0, <1>3 DEF QueueOf
      <4>2. \A u \in Thread : u # t => Waits(u, r)' = Waits(u, r)
        BY <1>3, <1>5
      <4>3. Waits(t, r)' = TRUE /\ Waits(t, r) = FALSE
        BY <1>3, <1>7, <2>2
      <4> QED
        BY <1>1, <2>4, <4>1, <4>2, <4>3
    <3>2. \A y : y \in writes'[r] <=>
            \E u \in Thread : Announces(u, r)' /\ startTs'[u] = y
      <4>1. \A u \in Thread : Announces(u, r)' = Announces(u, r)
        BY <1>3, <1>5, <1>6
      <4> QED
        BY <1>0, <1>1, <1>3, <4>1 DEF QueueOf
    <3>3. /\ minWrite[r] = MinTimestamp(writes[r]) /\ reads[r] \in SUBSET Ts
          /\ minRead[r] = MinTimestamp(reads[r])
          /\ \A y \in reads[r] : minWrite[r] < y
      BY <1>0, <1>3 DEF QueueOf, TypeOK
    <3>4. minRead'[r] = IF x < minRead[r] THEN x ELSE minRead[r]
      BY <1>0, <1>3, <2>1 DEF TypeOK
    <3>5. minRead'[r] = MinTimestamp(reads'[r])
      BY <1>3, <2>4, <3>3, <3>4, MinimumJoined
    <3>6. \A y \in reads'[r] : minWrite'[r] < y
      <4>1. x \in Nat /\ minWrite[r] \in Nat
        BY <1>0, <1>3 DEF TypeOK, Ts
      <4>2. minWrite[r] < x
        BY <1>9, <4>1
      <4> QED
        BY <1>1, <2>4, <3>3, <4>2
    <3> QED
      BY <1>1, <3>1, <3>2, <3>3, <3>5, <3>6 DEF QueueOf
  <2>6. QueuesAgree'
    <3>1. QueuesFine'
      BY <2>3, <2>5 DEF QueuesFine
    <3> QED
      BY <3>1, QueuesOf, PTL
  <2>7. Marks'
    BY <1>0, <1>1, <2>1 DEF Marks
  <2> QED
    BY <1>1, <2>6, <2>7
<1> QED
  BY <1>4, <1>8, <1>9

(***************************************************************************)
(* The commit or the abort of an update: its write leaves the queue, and   *)
(* the reads up to the next announced write are answered.                  *)
(***************************************************************************)
LEMMA BufferQueues ==
  ASSUME ToInv, NEW t \in Thread, pc[t] \in {"commit", "undo"},
         finished[t] < Len(accesses[t]), Current(t).type = "READ_WRITE",
         NEW r, r = Current(t).record, NEW x, x = startTs[t],
         UpdateBuffer(t, r), finished' = [finished EXCEPT ![t] = @ + 1],
         UNCHANGED <<pc, startTs, request, accesses>>,
         \/ UNCHANGED <<word, writeTs>>
         \/ /\ word' = [word EXCEPT ![r] = x]
            /\ writeTs' = [writeTs EXCEPT ![r] = x]
  PROVE  QueuesAgree' /\ Marks'
<1> DEFINE n == finished[t] + 1
<1>0. /\ Typed /\ TypeOK /\ Control(t) /\ Distinct(t) /\ Marks /\ Stamps
      /\ \A u \in Thread : Control(u)
      /\ \A q \in Record : QueueOf(q)
  BY OldQueues DEF ToInv, Typed
<1>1. /\ n \in DOMAIN accesses[t] /\ Current(t) \in Entry /\ r \in Record
      /\ Announces(t, r)
  BY <1>0, CurrentEntry DEF Entry
<1>2. /\ n \in Nat /\ finished[t] \in Nat /\ finished'[t] = n
      /\ \A u \in Thread : u # t => finished'[u] = finished[u]
      /\ \A i \in DOMAIN accesses[t] : i \in Nat
  <2>1. accesses[t] \in Seq(Entry) /\ finished[t] \in Nat
    BY <1>0, ToConstants DEF ToConstants, Typed, TypeOK
  <2> QED
    BY <1>0, <2>1, LenProperties DEF TypeOK
<1>3. accesses[t][n].record = r /\ accesses[t][n].type = "READ_WRITE"
  BY DEF Current
<1>4. ASSUME NEW q \in Record
      PROVE  Announces(t, q)' = (Announces(t, q) /\ q # r)
  <2>1. Announces(t, q) = \E i : AnnouncesAt(t, i, q)
    BY DEF Announces, AnnouncesAt
  <2>2. Announces(t, q)' = \E i : AnnouncesAt(t, i, q)'
    BY DEF Announces, AnnouncesAt
  <2>3. \A i : AnnouncesAt(t, i, q)' = (AnnouncesAt(t, i, q) /\ i # n)
    <3>1. \A i \in DOMAIN accesses[t] : i > n <=> i > finished[t] /\ i # n
      BY <1>2
    <3>2. \A i : AnnouncesAt(t, i, q)' \in BOOLEAN /\ AnnouncesAt(t, i, q) \in BOOLEAN
      BY DEF AnnouncesAt
    <3> QED
      BY <1>2, <3>1, <3>2 DEF AnnouncesAt
  <2>4. AnnouncesAt(t, n, q) => q = r
    BY <1>3 DEF AnnouncesAt
  <2>5. \A i : AnnouncesAt(t, i, r) => i = n
    BY <1>0, <1>1, <1>3 DEF AnnouncesAt, Distinct, Selects
  <2>6. CASE q = r
    BY <2>2, <2>3, <2>5, <2>6
  <2>7. CASE q # r
    BY <2>1, <2>2, <2>3, <2>4, <2>7
  <2> QED
    BY <2>6, <2>7
<1>5. ASSUME NEW u \in Thread, u # t, NEW q \in Record
      PROVE  Announces(u, q)' = Announces(u, q)
  BY <1>2, <1>5 DEF Announces
<1>6. /\ writes' = [writes EXCEPT ![r] = Rest(t, r)]
      /\ minWrite' = [minWrite EXCEPT ![r] = MinTimestamp(Rest(t, r))]
      /\ reads' = [reads EXCEPT ![r] = @ \ Granted(t, r)]
      /\ minRead' = [minRead EXCEPT ![r] =
                       MinTimestamp(reads[r] \ Granted(t, r))]
      /\ \E m \in Ts :
           /\ readTs' = [readTs EXCEPT ![r] = m] /\ readTs[r] <= m
           /\ \A y \in Rest(t, r) : m <= y
      /\ ready' = [u \in Thread |-> ready[u] \/ Wakes(t, r, u)]
  <2>1. QueuesAgree
    BY DEF ToInv
  <2>2. Updated(t, r)
    BY <1>0, <1>1, <2>1, BufferUpdated
  <2> QED
    BY <2>2 DEF Updated
<1>7. ASSUME NEW u \in Thread, NEW q \in Record
      PROVE  Waits(u, q)' =
               (Waits(u, q) /\ ~(q = r /\ startTs[u] \in Granted(t, r)))
  <2>1. ready'[u] = (ready[u] \/ Wakes(t, r, u))
    BY <1>6
  <2> QED
    BY <2>1 DEF Waits, Wakes
<1>8. ASSUME NEW q \in Record, q # r
      PROVE  /\ writes'[q] = writes[q] /\ reads'[q] = reads[q]
             /\ minWrite'[q] = minWrite[q] /\ minRead'[q] = minRead[q]
             /\ readTs'[q] = readTs[q]
             /\ word'[q] = word[q] /\ writeTs'[q] = writeTs[q]
  BY <1>0, <1>6, <1>8 DEF TypeOK
<1>9. ASSUME NEW q \in Record, q # r PROVE QueueOf(q)'
  <2>1. \A u \in Thread : /\ Announces(u, q) \in BOOLEAN
                          /\ Waits(u, q) \in BOOLEAN
    BY DEF Announces, Waits
  <2>2. \A u \in Thread : Announces(u, q)' = Announces(u, q)
                            /\ Waits(u, q)' = Waits(u, q)
    BY <1>4, <1>5, <1>7, <1>9, <2>1
  <2>3. QueueOf(q) /\ \A u \in Thread : startTs'[u] = startTs[u]
    BY <1>0
  <2> QED
    BY <1>8, <1>9, <2>2, <2>3, QueueSame
<1>10. /\ writes'[r] = Rest(t, r) /\ reads'[r] = reads[r] \ Granted(t, r)
       /\ minWrite'[r] = MinTimestamp(Rest(t, r))
       /\ minRead'[r] = MinTimestamp(reads[r] \ Granted(t, r))
  <2>1. /\ r \in DOMAIN writes /\ r \in DOMAIN reads
        /\ r \in DOMAIN minWrite /\ r \in DOMAIN minRead
    BY <1>0, <1>1 DEF TypeOK
  <2> QED
    BY <1>6, <2>1, Zenon
<1>11. /\ writes[r] \in SUBSET Ts /\ reads[r] \in SUBSET Ts /\ Ts \subseteq Nat
       /\ x \in Ts \ {0} /\ Rest(t, r) = writes[r] \ {x}
  <2>1. x \in Ts \ {0}
    BY <1>0, <1>1, QueuersStamped
  <2>2. writes[r] \in SUBSET Ts /\ reads[r] \in SUBSET Ts
    BY <1>0, <1>1 DEF TypeOK
  <2>3. Ts \subseteq Nat
    BY DEF Ts
  <2> QED
    BY <2>1, <2>2, <2>3 DEF Rest
<1>12. QueueOf(r)'
  <2>1. \A y : y \in writes'[r] <=>
          \E u \in Thread : Announces(u, r)' /\ startTs'[u] = y
    <3>1. \A y : y \in writes[r] <=>
            \E u \in Thread : Announces(u, r) /\ startTs[u] = y
      BY <1>0, <1>1 DEF QueueOf
    <3>2. \A u \in Thread : u # t => Announces(u, r)' = Announces(u, r)
      BY <1>1, <1>5
    <3>3. Announces(t, r)' = FALSE
      BY <1>1, <1>4
    <3>4. \A u \in Thread : startTs[u] = x => u = t
      BY <1>0, <1>11 DEF Stamps
    <3>5. \A y : y \in writes'[r] <=> y \in writes[r] /\ y # x
      BY <1>10, <1>11
    <3> QED
      BY <3>1, <3>2, <3>3, <3>4, <3>5
  <2>2. \A y : y \in reads'[r] <=>
          \E u \in Thread : Waits(u, r)' /\ startTs'[u] = y
    <3>1. \A y : y \in reads[r] <=>
            \E u \in Thread : Waits(u, r) /\ startTs[u] = y
      BY <1>0, <1>1 DEF QueueOf
    <3>2. \A u \in Thread : Waits(u, r)' =
            (Waits(u, r) /\ startTs[u] \notin Granted(t, r))
      BY <1>1, <1>7
    <3>3. \A y : y \in reads'[r] <=> y \in reads[r] /\ y \notin Granted(t, r)
      BY <1>10
    <3>4. \A u \in Thread : Waits(u, r) \in BOOLEAN /\ startTs'[u] = startTs[u]
      BY DEF Waits
    <3>5. ASSUME NEW y
          PROVE  (\E u \in Thread : Waits(u, r)' /\ startTs'[u] = y) <=>
                   y \in reads[r] /\ y \notin Granted(t, r)
      <4>1. (\E u \in Thread : Waits(u, r)' /\ startTs'[u] = y) <=>
              \E u \in Thread : Waits(u, r) /\ startTs[u] = y
                                 /\ y \notin Granted(t, r)
        BY <3>2, <3>4
      <4> QED
        BY <3>1, <4>1
    <3> QED
      BY <3>3, <3>5
  <2>3. ASSUME NEW y \in reads'[r] PROVE minWrite'[r] < y
    <3>1. y \in reads[r] /\ y \notin Granted(t, r)
      BY <1>10, <2>3
    <3>2. ~(y <= MinTimestamp(Rest(t, r)))
      BY <3>1 DEF Granted
    <3>3. y \in Nat /\ MinTimestamp(Rest(t, r)) \in Nat
      <4>1. Rest(t, r) \in SUBSET Ts
        BY <1>11
      <4> QED
        BY <1>11, <3>1, <4>1, Minimum
    <3> QED
      BY <1>10, <3>2, <3>3
  <2> QED
    BY <1>10, <2>1, <2>2, <2>3 DEF QueueOf
<1>13. QueuesAgree'
  <2>1. QueuesFine'
    BY <1>9, <1>12 DEF QueuesFine
  <2> QED
    BY <2>1, QueuesOf, PTL
<1>14. Marks'
  <2>1. /\ word'[r] = writeTs'[r] /\ writeTs'[r] <= readTs'[r]
        /\ \A y \in writes'[r] : readTs'[r] <= y
    <3>1. PICK m \in Ts : /\ readTs' = [readTs EXCEPT ![r] = m] /\ readTs[r] <= m
                          /\ \A y \in Rest(t, r) : m <= y
      BY <1>6
    <3>2. /\ readTs'[r] = m /\ m \in Nat /\ readTs[r] \in Nat
          /\ writeTs[r] \in Nat /\ x \in Nat
      BY <1>0, <1>1, <1>11, <3>1 DEF TypeOK
    <3>3. word[r] = writeTs[r] /\ writeTs[r] <= readTs[r]
      BY <1>0, <1>1 DEF Marks
    <3>4. x <= readTs[r]
      <4>1. Selects(t, n)
        BY <1>1, <1>3 DEF Selects
      <4> QED
        BY <1>1, <1>3, <4>1 DEF ToInv, ReadsInOrder, ThreadReads, InOrder
    <3>5. \/ word'[r] = word[r] /\ writeTs'[r] = writeTs[r]
          \/ word'[r] = x /\ writeTs'[r] = x
      BY <1>0, <1>1 DEF TypeOK
    <3>6. word'[r] = writeTs'[r] /\ writeTs'[r] <= m
      BY <3>1, <3>2, <3>3, <3>4, <3>5
    <3> QED
      BY <1>10, <3>1, <3>2, <3>6
  <2>2. \A q \in Record : q # r =>
          /\ word'[q] = writeTs'[q] /\ writeTs'[q] <= readTs'[q]
          /\ \A y \in writes'[q] : readTs'[q] <= y
    BY <1>0, <1>8 DEF Marks
  <2> QED
    BY <2>1, <2>2 DEF Marks
<1> QED
  BY <1>13, <1>14

(***************************************************************************)
(* An entry that is no update is passed over.                              *)
(***************************************************************************)
LEMMA SkipQueues ==
  ASSUME ToInv, NEW t \in Thread, pc[t] \in {"commit", "undo"},
         finished[t] < Len(accesses[t]), Current(t).type # "READ_WRITE",
         finished' = [finished EXCEPT ![t] = @ + 1],
         UNCHANGED <<pc, startTs, request, accesses, ready>>,
         NEW q \in Record
  PROVE  Announces(t, q)' = Announces(t, q) /\ Waits(t, q)' = Waits(t, q)
<1> DEFINE n == finished[t] + 1
<1>1. /\ n \in Nat /\ finished[t] \in Nat /\ finished'[t] = n
      /\ \A i \in DOMAIN accesses[t] : i \in Nat
  <2>1. accesses[t] \in Seq(Entry) /\ finished[t] \in Nat
    BY ToConstants DEF ToConstants, ToInv, Typed, TypeOK
  <2> QED
    BY <2>1, LenProperties DEF ToInv, Typed, TypeOK
<1>2. accesses[t][n].type # "READ_WRITE"
  BY DEF Current
<1>3. \A i \in DOMAIN accesses[t] : i > n <=> i > finished[t] /\ i # n
  BY <1>1
<1> QED
  BY <1>1, <1>2, <1>3 DEF Announces, Waits

(***************************************************************************)
(* A step that leaves the records alone leaves their queues in agreement,  *)
(* if its thread queues as before.                                         *)
(***************************************************************************)
LEMMA StillQueues ==
  ASSUME ToInv, NEW t \in Thread,
         UNCHANGED <<word, readTs, writeTs, minRead, minWrite, reads, writes>>,
         \A u \in Thread : u # t =>
           /\ pc'[u] = pc[u] /\ request'[u] = request[u]
           /\ accesses'[u] = accesses[u] /\ finished'[u] = finished[u]
           /\ startTs'[u] = startTs[u] /\ ready'[u] = ready[u],
         \A q \in Record :
           /\ Announces(t, q)' = Announces(t, q) /\ Waits(t, q)' = Waits(t, q)
           /\ Announces(t, q) \/ Waits(t, q) => startTs'[t] = startTs[t]
  PROVE  QueuesAgree' /\ Marks'
<1>1. (\A q \in Record : QueueOf(q)) /\ Marks
  BY OldQueues DEF ToInv
<1>2. ASSUME NEW q \in Record PROVE QueueOf(q)'
  <2>1. \A u \in Thread : Announces(u, q)' = Announces(u, q)
                            /\ Waits(u, q)' = Waits(u, q)
    BY QueuesAlone
  <2>2. \A u \in Thread : Announces(u, q) \/ Waits(u, q) =>
                            startTs'[u] = startTs[u]
    OBVIOUS
  <2> QED
    BY <1>1, <2>1, <2>2, QueueSame
<1>3. QueuesFine'
  BY <1>2 DEF QueuesFine
<1>4. QueuesAgree'
  BY <1>3, QueuesOf, PTL
<1>5. Marks'
  BY <1>1 DEF Marks
<1> QED
  BY <1>4, <1>5

(***************************************************************************)
(* The queues agree, the marks hold and no commit is put off after every   *)
(* step.                                                                   *)
(***************************************************************************)
LEMMA NextQueues ==
  ToInv /\ [Next]_vars => NoCommitBuffered' /\ QueuesAgree' /\ Marks'
<1> SUFFICES ASSUME ToInv, [Next]_vars
             PROVE  QueuesAgree' /\ Marks' /\ commits' = commits
  BY DEF ToInv, NoCommitBuffered
<1>0. /\ Typed /\ TypeOK
      /\ \A u \in Thread : Control(u)
  BY DEF ToInv, Typed
<1>1. ASSUME NEW t \in Thread,
             \/ Execute(t) \/ (\E r \in Record : InsertRecord(t, r))
             \/ (\E r \in Record : \E type \in {"READ_ONLY", "READ_WRITE"} :
                   SelectRecordCC(t, r, type))
             \/ NewAccess(t) \/ CommitTransaction(t)
             \/ ReturnCommitted(t) \/ ReturnAborted(t)
      PROVE  QueuesAgree' /\ Marks' /\ commits' = commits
  <2>1. /\ UNCHANGED <<word, readTs, writeTs, minRead, minWrite, reads, writes,
                       commits>>
    BY <1>1 DEF Execute, InsertRecord, SelectRecordCC, NewAccess,
                CommitTransaction, ReturnCommitted, ReturnAborted, content
  <2>2. \A u \in Thread : u # t => startTs'[u] = startTs[u]
    <3>1. CASE DrawStartTimestamp(t)
      BY <1>0, <3>1, Drawn
    <3>2. CASE startTs' = startTs \/ startTs' = [startTs EXCEPT ![t] = 0]
      BY <1>0, <3>2 DEF TypeOK
    <3> QED
      BY <1>1, <3>1, <3>2
         DEF Execute, InsertRecord, SelectRecordCC, NewAccess, txn,
             CommitTransaction, ReturnCommitted, ReturnAborted, ClearAccess
  <2>3. \A u \in Thread : u # t => pc'[u] = pc[u] /\ ready'[u] = ready[u]
    BY <1>0, <1>1
       DEF TypeOK, Execute, InsertRecord, SelectRecordCC, NewAccess,
           CommitTransaction, ReturnCommitted, ReturnAborted
  <2>4. \A u \in Thread : u # t => request'[u] = request[u]
    BY <1>0, <1>1
       DEF Typed, Execute, InsertRecord, SelectRecordCC, NewAccess, txn,
           CommitTransaction, ReturnCommitted, ReturnAborted, ClearAccess
  <2>5. \A u \in Thread : u # t => accesses'[u] = accesses[u]
    BY <1>0, <1>1
       DEF Typed, Execute, InsertRecord, SelectRecordCC, NewAccess, txn,
           CommitTransaction, ReturnCommitted, ReturnAborted, ClearAccess
  <2>6. \A u \in Thread : u # t => finished'[u] = finished[u]
    BY <1>0, <1>1
       DEF TypeOK, Execute, InsertRecord, SelectRecordCC, NewAccess, txn,
           CommitTransaction, ReturnCommitted, ReturnAborted, ClearAccess
  <2>7. \A q \in Record :
          /\ Announces(t, q)' = Announces(t, q) /\ Waits(t, q)' = Waits(t, q)
          /\ Announces(t, q) \/ Waits(t, q) => startTs'[t] = startTs[t]
    BY <1>1, QuietQueues
  <2> QED
    BY <2>1, <2>2, <2>3, <2>4, <2>5, <2>6, <2>7, StillQueues
<1>2. ASSUME NEW t \in Thread, RequestWriteAccess(t)
      PROVE  QueuesAgree' /\ Marks' /\ commits' = commits
  BY <1>2, WriteQueues
<1>3. ASSUME NEW t \in Thread, RequestReadAccess(t)
      PROVE  QueuesAgree' /\ Marks' /\ commits' = commits
  BY <1>3, ReadQueues
<1>4. ASSUME NEW t \in Thread, RequestCommit(t) \/ RequestAbort(t)
      PROVE  QueuesAgree' /\ Marks' /\ commits' = commits
  <2>1. /\ pc[t] \in {"commit", "undo"} /\ finished[t] < Len(accesses[t])
        /\ finished' = [finished EXCEPT ![t] = @ + 1]
        /\ UNCHANGED <<pc, startTs, request, accesses>>
    BY <1>4 DEF RequestCommit, RequestAbort
  <2>2. CASE Current(t).type # "READ_WRITE"
    <3>1. UNCHANGED <<content, local, ready>>
      BY <1>4, <2>2, Zenon DEF RequestCommit, RequestAbort
    <3>2. \A q \in Record : Announces(t, q)' = Announces(t, q)
                              /\ Waits(t, q)' = Waits(t, q)
      BY <2>1, <2>2, <3>1, SkipQueues
    <3>3. \A u \in Thread : u # t => finished'[u] = finished[u]
      BY <1>0, <2>1 DEF TypeOK
    <3>4. UNCHANGED <<word, readTs, writeTs, minRead, minWrite, reads, writes,
                      commits, ready>>
      BY <3>1 DEF content
    <3> QED
      BY <2>1, <3>2, <3>3, <3>4, StillQueues
  <2>3. CASE Current(t).type = "READ_WRITE"
    <3> SUFFICES ASSUME NEW r, r = Current(t).record, NEW x, x = startTs[t]
                 PROVE  QueuesAgree' /\ Marks' /\ commits' = commits
      OBVIOUS
    <3>1. Install(t, r) \/ Drop(t, r)
      BY <1>4, <2>3, CommitInstalls, Zenon DEF RequestAbort
    <3>2. /\ UpdateBuffer(t, r) /\ commits' = commits
          /\ \/ UNCHANGED <<word, writeTs>>
             \/ /\ word' = [word EXCEPT ![r] = x]
                /\ writeTs' = [writeTs EXCEPT ![r] = x]
      BY <3>1 DEF Install, Drop
    <3> QED
      BY <2>1, <2>3, <3>2, BufferQueues
  <2> QED
    BY <2>2, <2>3
<1>5. ASSUME UNCHANGED vars
      PROVE  QueuesAgree' /\ Marks' /\ commits' = commits
  <2>1. /\ UNCHANGED <<word, readTs, writeTs, minRead, minWrite, reads, writes>>
        /\ UNCHANGED <<pc, request, accesses, finished, startTs, ready, commits>>
    BY <1>5 DEF vars, content, txn
  <2>2. ASSUME NEW q \in Record PROVE QueueOf(q)'
    <3>1. \A u \in Thread : Announces(u, q)' = Announces(u, q)
                              /\ Waits(u, q)' = Waits(u, q)
      BY <2>1, QueuesAlone
    <3> QED
      BY <2>1, <3>1, OldQueues, QueueSame
  <2>3. QueuesFine'
    BY <2>2 DEF QueuesFine
  <2>4. QueuesAgree'
    BY <2>3, QueuesOf, PTL
  <2>5. Marks'
    BY <2>1 DEF ToInv, Marks
  <2> QED
    BY <2>1, <2>4, <2>5
<1> QED
  BY <1>1, <1>2, <1>3, <1>4, <1>5 DEF Next, Step, Select, Joined

-----------------------------------------------------------------------------
(***************************************************************************)
(* The history.                                                            *)
(***************************************************************************)

(***************************************************************************)
(* WroteAt after the step, of values after the step.                       *)
(***************************************************************************)
WroteNext(x, r) == \E b \in committed' : b.ts = x /\ r \in b.wrote

(***************************************************************************)
(* A step that installs, withdraws and commits nothing keeps the writes.   *)
(***************************************************************************)
LEMMA WritesFrame ==
  ASSUME WritesKept, UNCHANGED <<word, writeTs, committed>>,
         \A r \in Record : writes[r] \subseteq writes'[r],
         committed \subseteq [ts : Ts, saw : SUBSET (Record \X Ts),
                              wrote : SUBSET Record],
         \A u \in Thread : pc'[u] = "commit" =>
           /\ pc[u] = "commit" /\ startTs'[u] = startTs[u]
           /\ accesses'[u] = accesses[u]
  PROVE  WritesKept'
<1>1. \A x, r : WroteNext(x, r) = WroteAt(x, r)
  BY DEF WroteAt, WroteNext
<1>2. \A r \in Record : word'[r] # 0 => WroteNext(word'[r], r)
  BY <1>1 DEF WritesKept
<1>3. \A b \in committed : b.wrote \in SUBSET Record
  OBVIOUS
<1>4. \A b \in committed' : \A r \in b.wrote :
        b.ts <= writeTs'[r] \/ b.ts \in writes'[r]
  BY <1>3 DEF WritesKept
<1>5. ASSUME NEW u \in Thread, pc'[u] = "commit", NEW i \in DOMAIN accesses'[u],
             accesses'[u][i].type = "READ_WRITE"
      PROVE  WroteNext(startTs'[u], accesses'[u][i].record)
  BY <1>1, <1>5 DEF WritesKept
<1> QED
  BY <1>2, <1>4, <1>5 DEF WritesKept, WroteAt, WroteNext

(***************************************************************************)
(* Every write that was committed is kept by every step.                   *)
(***************************************************************************)
LEMMA NextWrites == ToInv /\ [Next]_vars => WritesKept'
<1> SUFFICES ASSUME ToInv, [Next]_vars PROVE WritesKept'
  OBVIOUS
<1>0. /\ Typed /\ TypeOK /\ WritesKept /\ Stamps /\ Marks
      /\ \A u \in Thread : Control(u)
      /\ committed \subseteq [ts : Ts, saw : SUBSET (Record \X Ts),
                              wrote : SUBSET Record]
      /\ accesses \in [Thread -> Seq(Entry)]
  BY DEF ToInv, Typed
<1>1. ASSUME NEW t \in Thread,
             \/ Execute(t) \/ (\E r \in Record : InsertRecord(t, r))
             \/ (\E r \in Record : \E type \in {"READ_ONLY", "READ_WRITE"} :
                   SelectRecordCC(t, r, type))
             \/ RequestWriteAccess(t) \/ RequestReadAccess(t) \/ NewAccess(t)
             \/ ReturnCommitted(t) \/ ReturnAborted(t)
      PROVE  WritesKept'
  <2>1. UNCHANGED <<word, writeTs, committed>>
    BY <1>1 DEF Execute, InsertRecord, SelectRecordCC, NewAccess, content,
                RequestWriteAccess, RequestReadAccess, ReturnCommitted,
                ReturnAborted
  <2>2. \A r \in Record : writes[r] \subseteq writes'[r]
    <3>1. CASE writes' = writes
      BY <3>1
    <3>2. CASE RequestWriteAccess(t)
      <4>1. CASE writes' = writes
        BY <4>1
      <4>2. CASE \E q, x : writes' = [writes EXCEPT ![q] = @ \cup {x}]
        <5>1. PICK q, x : writes' = [writes EXCEPT ![q] = @ \cup {x}]
          BY <4>2
        <5>2. writes \in [Record -> SUBSET Ts]
          BY <1>0 DEF TypeOK
        <5> QED
          BY <5>1, <5>2
      <4> QED
        BY <3>2, <4>1, <4>2, Zenon DEF RequestWriteAccess, BufferWriteRequest
    <3> QED
      BY <1>1, <3>1, <3>2
         DEF Execute, InsertRecord, SelectRecordCC, NewAccess, content,
             RequestReadAccess, ReturnCommitted, ReturnAborted
  <2>3. pc'[t] # "commit" /\ \A u \in Thread : u # t => pc'[u] = pc[u]
    <3>1. CASE \E r \in Record : InsertRecord(t, r)
      BY <1>0, <3>1 DEF InsertRecord, TypeOK
    <3>2. CASE \E r \in Record : \E type \in {"READ_ONLY", "READ_WRITE"} :
                 SelectRecordCC(t, r, type)
      BY <1>0, <3>2 DEF SelectRecordCC, TypeOK
    <3>3. CASE RequestWriteAccess(t)
      <4>1. pc' = [pc EXCEPT ![t] = "undo"] \/ pc' = [pc EXCEPT ![t] = "read"]
        BY <3>3, Zenon DEF RequestWriteAccess
      <4> QED
        BY <1>0, <4>1 DEF TypeOK
    <3>4. CASE RequestReadAccess(t)
      <4>1. pc' = [pc EXCEPT ![t] = "undo"] \/ pc' = [pc EXCEPT ![t] = "wait"]
        BY <3>4, Zenon DEF RequestReadAccess
      <4> QED
        BY <1>0, <4>1 DEF TypeOK
    <3>5. CASE \/ Execute(t) \/ NewAccess(t)
               \/ ReturnCommitted(t) \/ ReturnAborted(t)
      BY <1>0, <3>5
         DEF Execute, NewAccess, ReturnCommitted, ReturnAborted, TypeOK
    <3> QED
      BY <1>1, <3>1, <3>2, <3>3, <3>4, <3>5
  <2>4. \A u \in Thread : u # t => startTs'[u] = startTs[u]
    <3>1. CASE DrawStartTimestamp(t)
      BY <1>0, <3>1, Drawn
    <3>2. CASE startTs' = startTs \/ startTs' = [startTs EXCEPT ![t] = 0]
      BY <1>0, <3>2 DEF TypeOK
    <3> QED
      BY <1>1, <3>1, <3>2
         DEF Execute, InsertRecord, SelectRecordCC, NewAccess, txn, ClearAccess,
             RequestWriteAccess, RequestReadAccess, ReturnCommitted,
             ReturnAborted
  <2>5. \A u \in Thread : u # t => accesses'[u] = accesses[u]
    BY <1>0, <1>1
       DEF Execute, InsertRecord, SelectRecordCC, NewAccess, txn, ClearAccess,
           RequestWriteAccess, RequestReadAccess, ReturnCommitted, ReturnAborted
  <2> QED
    BY <1>0, <2>1, <2>2, <2>3, <2>4, <2>5, WritesFrame
<1>2. ASSUME NEW t \in Thread, CommitTransaction(t) PROVE WritesKept'
  <2> DEFINE a == [ts |-> startTs[t], saw |-> Saw(t), wrote |-> Wrote(t)]
  <2>1. /\ pc[t] = "exec" /\ committed' = committed \cup {a}
        /\ UNCHANGED <<word, writeTs, writes, startTs, accesses>>
        /\ \A u \in Thread : u # t => pc'[u] = pc[u]
    BY <1>0, <1>2
       DEF CommitTransaction, Saw, Wrote, content, txn, TypeOK
  <2>2. /\ a.ts = startTs[t] /\ Wrote(t) \in SUBSET Record
        /\ \A r : r \in a.wrote <=> \E i \in DOMAIN accesses[t] :
             accesses[t][i].type = "READ_WRITE" /\ accesses[t][i].record = r
    BY <1>0, HistoryTyped DEF ToInv
  <2> HIDE DEF a
  <2>3. \A x, r : WroteAt(x, r) => WroteNext(x, r)
    BY <2>1 DEF WroteAt, WroteNext
  <2>4. \A r \in Record : word'[r] # 0 => WroteNext(word'[r], r)
    BY <1>0, <2>1, <2>3 DEF WritesKept
  <2>5. \A r \in a.wrote : startTs[t] \in writes[r]
    <3> SUFFICES ASSUME NEW r \in a.wrote PROVE startTs[t] \in writes[r]
      OBVIOUS
    <3>1. PICK i \in DOMAIN accesses[t] :
            accesses[t][i].type = "READ_WRITE" /\ accesses[t][i].record = r
      BY <2>2
    <3>2. Announces(t, r)
      BY <2>1, <3>1 DEF Announces
    <3>3. r \in Record
      <4>1. accesses[t][i] \in Entry
        BY <1>0, <3>1, ElementOfSeq, LenProperties
      <4> QED
        BY <3>1, <4>1 DEF Entry
    <3> QED
      BY <3>2, <3>3, AnnouncedInTime
  <2>6. \A b \in committed' : \A r \in b.wrote :
          b.ts <= writeTs'[r] \/ b.ts \in writes'[r]
    BY <1>0, <2>1, <2>2, <2>5 DEF WritesKept
  <2>7. ASSUME NEW u \in Thread, pc'[u] = "commit", NEW i \in DOMAIN accesses'[u],
               accesses'[u][i].type = "READ_WRITE"
        PROVE  WroteNext(startTs'[u], accesses'[u][i].record)
    <3>1. CASE u = t
      BY <2>1, <2>2, <2>7, <3>1 DEF WroteNext
    <3>2. CASE u # t
      BY <1>0, <2>1, <2>3, <2>7, <3>2 DEF WritesKept
    <3> QED
      BY <3>1, <3>2
  <2> QED
    BY <2>4, <2>6, <2>7 DEF WritesKept, WroteAt, WroteNext
<1>3. ASSUME NEW t \in Thread, RequestCommit(t) \/ RequestAbort(t)
      PROVE  WritesKept'
  <2>1. /\ pc[t] \in {"commit", "undo"} /\ finished[t] < Len(accesses[t])
        /\ UNCHANGED <<pc, startTs, accesses, committed>>
    BY <1>3 DEF RequestCommit, RequestAbort
  <2>2. CASE Current(t).type # "READ_WRITE"
    <3>1. UNCHANGED <<content, local, ready>>
      BY <1>3, <2>2, Zenon DEF RequestCommit, RequestAbort
    <3> QED
      BY <1>0, <2>1, <3>1, WritesFrame DEF content
  <2>3. CASE Current(t).type = "READ_WRITE"
    <3> SUFFICES ASSUME NEW r, r = Current(t).record, NEW x, x = startTs[t]
                 PROVE  WritesKept'
      OBVIOUS
    <3>1. \/ pc[t] = "commit" /\ Install(t, r)
          \/ pc[t] = "undo" /\ Drop(t, r)
      BY <1>3, <2>3, CommitInstalls, Zenon DEF RequestCommit, RequestAbort
    <3>2. /\ UpdateBuffer(t, r)
          /\ \/ pc[t] = "undo" /\ UNCHANGED <<word, writeTs>>
             \/ /\ pc[t] = "commit"
                /\ word' = [word EXCEPT ![r] = x]
                /\ writeTs' = [writeTs EXCEPT ![r] = x]
      BY <3>1 DEF Install, Drop
    <3>3. r \in Record /\ Announces(t, r) /\ x \in Ts \ {0}
      <4>1. Current(t) \in Entry /\ Announces(t, r)
        BY <1>0, <2>1, <2>3, CurrentEntry
      <4>2. r \in Record
        BY <4>1 DEF Entry
      <4> QED
        BY <1>0, <4>1, <4>2, QueuersStamped
    <3>4. writes' = [writes EXCEPT ![r] = writes[r] \ {x}]
      BY <3>2, Zenon DEF UpdateBuffer
    <3>5. \A y, q : WroteNext(y, q) = WroteAt(y, q)
      BY <2>1 DEF WroteAt, WroteNext
    <3>6. /\ writeTs[r] \in Nat /\ x \in Nat /\ writeTs[r] <= x
          /\ \A b \in committed : b.ts \in Nat /\ b.wrote \in SUBSET Record
      <4>1. ~(x < writeTs[r])
        BY <3>3, AnnouncedInTime
      <4>2. writeTs[r] \in Nat /\ x \in Nat
        BY <1>0, <3>3 DEF TypeOK, Ts
      <4>3. \A b \in committed : b.ts \in Ts /\ b.wrote \in SUBSET Record
        BY <1>0
      <4> QED
        BY <4>1, <4>2, <4>3 DEF Ts
    <3>7. pc[t] = "commit" => WroteAt(x, r)
      <4>1. /\ finished[t] + 1 \in DOMAIN accesses[t]
            /\ accesses[t][finished[t] + 1].type = "READ_WRITE"
            /\ accesses[t][finished[t] + 1].record = r
        BY <1>0, <2>1, <2>3, CurrentEntry DEF Current
      <4> QED
        BY <1>0, <4>1 DEF WritesKept
    <3>8. \A q \in Record : word'[q] # 0 => WroteNext(word'[q], q)
      <4>1. ASSUME NEW q \in Record, word'[q] # 0 PROVE WroteAt(word'[q], q)
        <5>1. \/ word'[q] = word[q]
              \/ pc[t] = "commit" /\ q = r /\ word'[q] = x
          BY <1>0, <3>2 DEF TypeOK
        <5> QED
          BY <1>0, <3>7, <4>1, <5>1 DEF WritesKept
      <4> QED
        BY <3>5, <4>1
    <3>9. \A b \in committed' : \A q \in b.wrote :
            b.ts <= writeTs'[q] \/ b.ts \in writes'[q]
      <4> SUFFICES ASSUME NEW b \in committed, NEW q \in b.wrote
                   PROVE  b.ts <= writeTs'[q] \/ b.ts \in writes'[q]
        BY <2>1
      <4>1. b.ts <= writeTs[q] \/ b.ts \in writes[q]
        BY <1>0 DEF WritesKept
      <4>2. q \in Record /\ b.ts \in Nat
        BY <3>6
      <4>3. CASE q # r
        <5>1. writeTs'[q] = writeTs[q] /\ writes'[q] = writes[q]
          BY <1>0, <3>2, <3>4, <4>2, <4>3 DEF TypeOK
        <5> QED
          BY <4>1, <5>1
      <4>4. CASE q = r
        <5>1. writes'[q] = writes[q] \ {x}
          BY <1>0, <3>3, <3>4, <4>4 DEF TypeOK
        <5>2. CASE pc[t] = "undo" /\ UNCHANGED <<word, writeTs>>
          <6>1. b.ts # x
            BY <1>0, <3>3, <5>2 DEF Stamps
          <6> QED
            BY <4>1, <5>1, <5>2, <6>1
        <5>3. CASE writeTs' = [writeTs EXCEPT ![r] = x]
          <6>1. writeTs'[q] = x
            BY <1>0, <3>3, <4>4, <5>3 DEF TypeOK
          <6>2. b.ts <= writeTs[r] => b.ts <= x
            BY <3>6, <4>2
          <6>3. x <= x
            BY <3>6
          <6> QED
            BY <4>1, <4>4, <5>1, <6>1, <6>2, <6>3
        <5> QED
          BY <3>2, <5>2, <5>3
      <4> QED
        BY <4>3, <4>4
    <3>10. ASSUME NEW u \in Thread, pc'[u] = "commit",
                  NEW i \in DOMAIN accesses'[u],
                  accesses'[u][i].type = "READ_WRITE"
           PROVE  WroteNext(startTs'[u], accesses'[u][i].record)
      BY <1>0, <2>1, <3>5, <3>10 DEF WritesKept
    <3> QED
      BY <3>8, <3>9, <3>10 DEF WritesKept, WroteAt, WroteNext
  <2> QED
    BY <2>2, <2>3
<1>4. ASSUME UNCHANGED vars PROVE WritesKept'
  BY <1>0, <1>4, WritesFrame DEF vars, content, txn
<1> QED
  BY <1>1, <1>2, <1>3, <1>4 DEF Next, Step, Select, Joined

(***************************************************************************)
(* InOrder after the step, of values after the step.                       *)
(***************************************************************************)
InOrderNext(x, r, v) ==
  /\ v < x /\ x <= readTs'[r]
  /\ v = 0 \/ WroteNext(v, r)
  /\ \A b \in committed' : r \in b.wrote => ~(v < b.ts /\ b.ts < x)

(***************************************************************************)
(* No read is forgotten, and whoever commits now writes after the reads.   *)
(***************************************************************************)
Grows ==
  /\ committed \subseteq committed'
  /\ \A r \in Record :
       readTs[r] \in Nat /\ readTs'[r] \in Nat /\ readTs[r] <= readTs'[r]
  /\ \A b \in committed' : b \in committed \/
       (b.ts \in Nat /\ \A r \in b.wrote : readTs[r] <= b.ts)

(***************************************************************************)
(* Then the reads stay in order.                                           *)
(***************************************************************************)
LEMMA InOrderKept ==
  ASSUME Grows, NEW r \in Record, NEW x \in Nat, NEW v, InOrder(x, r, v)
  PROVE  InOrderNext(x, r, v)
<1>1. x <= readTs[r] /\ readTs[r] <= readTs'[r] /\ v < x
  BY DEF InOrder, Grows
<1>2. readTs[r] \in Nat /\ readTs'[r] \in Nat
  BY DEF Grows
<1>3. x <= readTs'[r]
  BY <1>1, <1>2
<1>4. v = 0 \/ WroteNext(v, r)
  BY DEF InOrder, WroteAt, WroteNext, Grows
<1>5. ASSUME NEW b \in committed', r \in b.wrote PROVE ~(v < b.ts /\ b.ts < x)
  <2>1. CASE b \in committed
    BY <1>5, <2>1 DEF InOrder
  <2>2. CASE b.ts \in Nat /\ readTs[r] <= b.ts
    BY <1>1, <1>2, <2>2
  <2> QED
    BY <1>5, <2>1, <2>2 DEF Grows
<1> QED
  BY <1>1, <1>3, <1>4, <1>5 DEF InOrderNext

(***************************************************************************)
(* The reads in an access list.                                            *)
(***************************************************************************)
LEMMA EntriesStill ==
  ASSUME ToInv, Grows, NEW u \in Thread, NEW i, Selects(u, i),
         accesses'[u][i] = accesses[u][i], startTs'[u] = startTs[u]
  PROVE  /\ accesses'[u][i].seen \in Ts
         /\ InOrderNext(startTs'[u], accesses'[u][i].record,
                        accesses'[u][i].seen)
<1>1. /\ ThreadReads(u) /\ startTs[u] \in Nat /\ accesses[u] \in Seq(Entry)
      /\ i \in DOMAIN accesses[u]
  BY DEF ToInv, ReadsInOrder, Typed, TypeOK, Ts, Selects
<1>2. /\ accesses[u][i].seen \in Ts
      /\ InOrder(startTs[u], accesses[u][i].record, accesses[u][i].seen)
  BY <1>1 DEF ThreadReads
<1>3. accesses[u][i].record \in Record
  <2>1. accesses[u][i] \in Entry
    BY <1>1, ElementOfSeq, LenProperties
  <2> QED
    BY <2>1 DEF Entry
<1>4. InOrderNext(startTs[u], accesses[u][i].record, accesses[u][i].seen)
  BY <1>1, <1>2, <1>3, InOrderKept
<1> QED
  BY <1>2, <1>4

(***************************************************************************)
(* The read that a thread has been answered.                               *)
(***************************************************************************)
LEMMA AnswerStill ==
  ASSUME ToInv, Grows, NEW u \in Thread, pc[u] = "wait", ready[u]
  PROVE  /\ local[u] \in Ts
         /\ InOrderNext(startTs[u], request[u].record, local[u])
<1>1. ThreadReads(u) /\ Control(u) /\ startTs[u] \in Nat
  BY DEF ToInv, ReadsInOrder, Typed, TypeOK, Ts
<1>2. /\ local[u] \in Ts
      /\ InOrder(startTs[u], request[u].record, local[u])
  BY <1>1 DEF ThreadReads
<1>3. request[u].record \in Record
  BY <1>1 DEF Control, Request, Record
<1> QED
  BY <1>1, <1>2, <1>3, InOrderKept

(***************************************************************************)
(* The two are all that a thread has read.                                 *)
(***************************************************************************)
LEMMA ReadsNext ==
  ASSUME NEW u \in Thread,
         pc'[u] = "wait" /\ ready'[u] =>
           /\ local'[u] \in Ts
           /\ InOrderNext(startTs'[u], request'[u].record, local'[u]),
         \A i : Selects(u, i)' =>
           /\ accesses'[u][i].seen \in Ts
           /\ InOrderNext(startTs'[u], accesses'[u][i].record,
                          accesses'[u][i].seen)
  PROVE  ThreadReads(u)'
BY DEF ThreadReads, InOrder, InOrderNext, WroteAt, WroteNext, Selects

(***************************************************************************)
(* The reads of a thread that has read nothing more in the step.           *)
(***************************************************************************)
LEMMA ReadsStill ==
  ASSUME ToInv, Grows, NEW u \in Thread,
         pc'[u] = "wait" /\ ready'[u] =>
           /\ pc[u] = "wait" /\ ready[u] /\ startTs'[u] = startTs[u]
           /\ request'[u] = request[u] /\ local'[u] = local[u],
         \A i : Selects(u, i)' =>
           /\ Selects(u, i) /\ accesses'[u][i] = accesses[u][i]
           /\ startTs'[u] = startTs[u]
  PROVE  ThreadReads(u)'
<1>1. pc'[u] = "wait" /\ ready'[u] =>
        /\ local'[u] \in Ts
        /\ InOrderNext(startTs'[u], request'[u].record, local'[u])
  BY AnswerStill
<1>2. ASSUME NEW i, Selects(u, i)'
      PROVE  /\ accesses'[u][i].seen \in Ts
             /\ InOrderNext(startTs'[u], accesses'[u][i].record,
                            accesses'[u][i].seen)
  BY <1>2, EntriesStill
<1> QED
  BY <1>1, <1>2, ReadsNext

(***************************************************************************)
(* The reads of the transactions that have committed before.               *)
(***************************************************************************)
LEMMA CommittedStill ==
  ASSUME ToInv, Grows, NEW a \in committed, NEW s \in a.saw
  PROVE  InOrderNext(a.ts, s[1], s[2])
<1>1. InOrder(a.ts, s[1], s[2])
  BY DEF ToInv, ReadsInOrder, CommittedReads
<1>2. a.ts \in Nat /\ s[1] \in Record
  <2>1. a \in [ts : Ts, saw : SUBSET (Record \X Ts), wrote : SUBSET Record]
    BY DEF ToInv, Typed
  <2>2. a.ts \in Ts /\ s \in Record \X Ts
    BY <2>1
  <2> QED
    BY <2>2 DEF Ts
<1> QED
  BY <1>1, <1>2, InOrderKept

(***************************************************************************)
(* A version that is read is older than the reader, and the last one       *)
(* before it: a committed write to r is not after the version in r, or it  *)
(* is still announced, and all that is announced is later than the read.   *)
(***************************************************************************)
LEMMA VersionInOrder ==
  ASSUME Typed', WritesKept', NEW r \in Record, NEW x \in Nat, NEW v,
         v = word'[r], v = writeTs'[r], v < x, x <= readTs'[r],
         \A y \in writes'[r] : x <= y
  PROVE  v \in Ts /\ InOrderNext(x, r, v)
<1>1. v \in Ts /\ v \in Nat
  BY DEF Typed, TypeOK, Ts
<1>2. v = 0 \/ WroteNext(v, r)
  BY DEF WritesKept, WroteAt, WroteNext
<1>3. ASSUME NEW b \in committed', r \in b.wrote PROVE ~(v < b.ts /\ b.ts < x)
  <2>1. b.ts \in Nat
    <3>1. b \in [ts : Ts, saw : SUBSET (Record \X Ts), wrote : SUBSET Record]
      BY DEF Typed
    <3> QED
      BY <3>1 DEF Ts
  <2>2. b.ts <= v \/ b.ts \in writes'[r]
    BY <1>3 DEF WritesKept
  <2> QED
    BY <1>1, <2>1, <2>2
<1> QED
  BY <1>1, <1>2, <1>3 DEF InOrderNext

(***************************************************************************)
(* A step of t that commits nothing and answers no one but t.              *)
(***************************************************************************)
LEMMA OwnReads ==
  ASSUME ToInv, Grows, committed' = committed, NEW t \in Thread,
         ThreadReads(t)',
         \A u \in Thread : u # t =>
           /\ pc'[u] = pc[u] /\ request'[u] = request[u]
           /\ accesses'[u] = accesses[u] /\ startTs'[u] = startTs[u]
           /\ ready'[u] = ready[u] /\ local'[u] = local[u]
  PROVE  ReadsInOrder'
<1>1. ASSUME NEW u \in Thread PROVE ThreadReads(u)'
  <2>1. CASE u = t
    BY <2>1
  <2>2. CASE u # t
    <3>1. \A i : Selects(u, i)' = Selects(u, i)
      BY <2>2 DEF Selects
    <3> QED
      BY <2>2, <3>1, ReadsStill
  <2> QED
    BY <2>1, <2>2
<1>2. \A a \in committed' : \A s \in a.saw : InOrderNext(a.ts, s[1], s[2])
  BY CommittedStill
<1> QED
  BY <1>1, <1>2 DEF ReadsInOrder, CommittedReads, InOrder, InOrderNext,
                    WroteAt, WroteNext

(***************************************************************************)
(* The steps of a thread that read nothing.                                *)
(***************************************************************************)
LEMMA QuietReads ==
  ASSUME ToInv, NEW t \in Thread,
         \/ Execute(t) \/ (\E r \in Record : InsertRecord(t, r))
         \/ (\E r \in Record : \E type \in {"READ_ONLY", "READ_WRITE"} :
               SelectRecordCC(t, r, type))
         \/ RequestWriteAccess(t) \/ ReturnCommitted(t) \/ ReturnAborted(t)
  PROVE  ReadsInOrder'
<1>0. /\ Typed /\ TypeOK /\ Control(t)
      /\ accesses \in [Thread -> Seq(Entry)]
      /\ request \in [Thread -> Request \cup {NoRequest}]
  BY DEF ToInv, Typed
<1>1. UNCHANGED <<readTs, committed, local>>
  BY DEF Execute, InsertRecord, SelectRecordCC, RequestWriteAccess,
         ReturnCommitted, ReturnAborted, content
<1>2. Grows
  <2>1. \A r \in Record : readTs[r] \in Nat
    BY <1>0 DEF TypeOK, Ts
  <2>2. \A r \in Record : readTs[r] <= readTs[r]
    BY <2>1
  <2> QED
    BY <1>1, <2>1, <2>2 DEF Grows
<1>3. /\ pc'[t] # "wait"
      /\ \A u \in Thread : u # t => pc'[u] = pc[u] /\ ready'[u] = ready[u]
  <2>1. CASE RequestWriteAccess(t)
    <3>1. pc' = [pc EXCEPT ![t] = "undo"] \/ pc' = [pc EXCEPT ![t] = "read"]
      BY <2>1, Zenon DEF RequestWriteAccess
    <3> QED
      BY <1>0, <2>1, <3>1 DEF RequestWriteAccess, TypeOK
  <2>2. CASE \E r \in Record : InsertRecord(t, r)
    BY <1>0, <2>2 DEF InsertRecord, TypeOK
  <2>3. CASE \E r \in Record : \E type \in {"READ_ONLY", "READ_WRITE"} :
               SelectRecordCC(t, r, type)
    BY <1>0, <2>3 DEF SelectRecordCC, TypeOK
  <2>4. CASE Execute(t) \/ ReturnCommitted(t) \/ ReturnAborted(t)
    BY <1>0, <2>4 DEF Execute, ReturnCommitted, ReturnAborted, TypeOK
  <2> QED
    BY <2>1, <2>2, <2>3, <2>4
<1>4. /\ \A u \in Thread : u # t => startTs'[u] = startTs[u]
      /\ accesses'[t] = <<>> \/ startTs[t] = 0 \/ startTs'[t] = startTs[t]
  <2>1. CASE DrawStartTimestamp(t)
    BY <1>0, <2>1, Drawn
  <2>2. CASE startTs' = startTs
    BY <2>2
  <2>3. CASE ClearAccess(t)
    BY <1>0, <2>3 DEF ClearAccess, TypeOK
  <2> QED
    BY <2>1, <2>2, <2>3
       DEF Execute, InsertRecord, SelectRecordCC, RequestWriteAccess, txn,
           ReturnCommitted, ReturnAborted
<1>5. \A u \in Thread : u # t =>
        request'[u] = request[u] /\ accesses'[u] = accesses[u]
  BY <1>0 DEF Execute, InsertRecord, SelectRecordCC, RequestWriteAccess, txn,
              ReturnCommitted, ReturnAborted, ClearAccess
<1>6. ASSUME NEW i, Selects(t, i)'
      PROVE  Selects(t, i) /\ accesses'[t][i] = accesses[t][i]
  <2>1. CASE \E r \in Record : InsertRecord(t, r)
    <3>1. PICK r \in Record : InsertRecord(t, r)
      BY <2>1
    <3> DEFINE e == [record |-> r, type |-> "INSERT_ONLY", seen |-> Unread]
    <3>2. /\ Len(accesses[t]) < MaxAccess
          /\ accesses' = [accesses EXCEPT ![t] = Append(@, e)]
      BY <3>1 DEF InsertRecord
    <3>3. e \in Entry /\ e.type = "INSERT_ONLY"
      BY DEF Entry
    <3> HIDE DEF e
    <3>4. /\ DOMAIN accesses[t] = 1..Len(accesses[t])
          /\ DOMAIN accesses'[t] = 1..(Len(accesses[t]) + 1)
          /\ Len(accesses[t]) \in Nat
          /\ \A j \in 1..Len(accesses[t]) : accesses'[t][j] = accesses[t][j]
          /\ accesses'[t][Len(accesses[t]) + 1] = e
      BY <1>0, <3>2, <3>3, EntryAdded
    <3>5. i # Len(accesses[t]) + 1
      BY <1>6, <3>3, <3>4 DEF Selects
    <3>6. i \in 1..Len(accesses[t])
      BY <1>6, <3>4, <3>5 DEF Selects
    <3> QED
      BY <1>6, <3>4, <3>6 DEF Selects
  <2>2. CASE accesses' = accesses
    BY <1>6, <2>2 DEF Selects
  <2>3. CASE ClearAccess(t)
    <3>1. accesses'[t] = <<>>
      BY <1>0, <2>3 DEF ClearAccess
    <3>2. DOMAIN <<>> = {}
      OBVIOUS
    <3> QED
      BY <1>6, <3>1, <3>2 DEF Selects
  <2> QED
    BY <2>1, <2>2, <2>3 DEF Execute, SelectRecordCC, RequestWriteAccess, txn,
                            ReturnCommitted, ReturnAborted
<1>7. ASSUME NEW i, Selects(t, i)' PROVE startTs'[t] = startTs[t]
  <2>1. i \in DOMAIN accesses[t] /\ i \in DOMAIN accesses'[t]
    BY <1>6, <1>7 DEF Selects
  <2>2. accesses[t] # <<>> /\ accesses'[t] # <<>>
    <3>1. DOMAIN <<>> = {}
      OBVIOUS
    <3> QED
      BY <2>1, <3>1
  <2> QED
    BY <1>0, <1>4, <2>2 DEF Control
<1>8. ThreadReads(t)'
  BY <1>2, <1>3, <1>6, <1>7, ReadsStill
<1> QED
  BY <1>1, <1>2, <1>3, <1>4, <1>5, <1>8, OwnReads

(***************************************************************************)
(* RequestReadAccess: an answer at once is the version before the reader's *)
(* timestamp.                                                              *)
(***************************************************************************)
LEMMA DirectReads ==
  ASSUME ToInv, Typed', WritesKept', NEW t \in Thread, RequestReadAccess(t),
         NEW r, r = request[t].record, NEW x, x = startTs[t]
  PROVE  ReadsInOrder'
<1>0. /\ Typed /\ TypeOK /\ Control(t) /\ Marks /\ Stamps /\ WritesKept
      /\ QueueOf(r) /\ r \in Record /\ x \in Nat \ {0} /\ pc[t] = "read"
  <2>1. pc[t] = "read"
    BY DEF RequestReadAccess
  <2>2. Typed /\ TypeOK /\ Control(t) /\ Marks /\ Stamps /\ WritesKept
    BY DEF ToInv, Typed
  <2>3. r \in Record
    BY <2>1, <2>2 DEF Control, Request, Record
  <2>4. x \in Nat \ {0}
    BY <2>1, <2>2 DEF Control, TypeOK, Ts
  <2> QED
    BY <2>1, <2>2, <2>3, <2>4, OldQueues
<1>1. /\ UNCHANGED <<request, accesses, startTs, committed, word, writeTs,
                     writes>>
      /\ ready[t] = FALSE
  BY <1>0 DEF RequestReadAccess, txn, Control, TypeOK
<1>2. CASE \/ pc' = [pc EXCEPT ![t] = "undo"]
              /\ UNCHANGED <<local, ready, readTs>>
           \/ /\ pc' = [pc EXCEPT ![t] = "wait"]
              /\ UNCHANGED <<local, ready, readTs>>
  <2>1. Grows
    <3>1. \A q \in Record : readTs[q] \in Nat
      BY <1>0 DEF TypeOK, Ts
    <3>2. \A q \in Record : readTs[q] <= readTs[q]
      BY <3>1
    <3> QED
      BY <1>1, <1>2, <3>1, <3>2 DEF Grows
  <2>2. \A u \in Thread : u # t => pc'[u] = pc[u]
    BY <1>0, <1>2 DEF TypeOK
  <2>3. ThreadReads(t)'
    <3>1. \A i : Selects(t, i)' => Selects(t, i)
      BY <1>1 DEF Selects
    <3> QED
      BY <1>1, <1>2, <2>1, <3>1, ReadsStill
  <2> QED
    BY <1>1, <1>2, <2>1, <2>2, <2>3, OwnReads
<1>3. CASE /\ pc' = [pc EXCEPT ![t] = "wait"] /\ ~TooLate(t, r)
           /\ ~(x > minWrite[r]) /\ ReadDirectly(t, r)
  <2>1. /\ local' = [local EXCEPT ![t] = word[r]]
        /\ readTs' = [readTs EXCEPT ![r] = IF @ < x THEN x ELSE @]
        /\ ready' = [ready EXCEPT ![t] = TRUE]
    BY <1>3 DEF ReadDirectly
  <2>2. \A q \in Record : readTs[q] \in Nat
    BY <1>0 DEF TypeOK, Ts
  <2>3. /\ \A q \in Record : q # r => readTs'[q] = readTs[q]
        /\ readTs'[r] = IF readTs[r] < x THEN x ELSE readTs[r]
    BY <1>0, <2>1 DEF TypeOK
  <2>4. \A q \in Record : readTs'[q] \in Nat /\ readTs[q] <= readTs'[q]
    BY <1>0, <2>2, <2>3
  <2>5. Grows
    BY <1>1, <2>2, <2>4 DEF Grows
  <2>6. \A u \in Thread : u # t =>
          pc'[u] = pc[u] /\ ready'[u] = ready[u] /\ local'[u] = local[u]
    BY <1>0, <1>3, <2>1 DEF TypeOK
  <2>7. word[r] < x
    <3>1. word[r] = writeTs[r] /\ word[r] \in Nat
      BY <1>0 DEF Marks, TypeOK, Ts
    <3>2. word[r] <= x
      BY <1>0, <1>3, <3>1 DEF TooLate
    <3>3. word[r] # x
      <4>1. word[r] # 0 => \E b \in committed : b.ts = word[r]
        BY <1>0 DEF WritesKept, WroteAt
      <4>2. \A b \in committed : b.ts # x
        BY <1>0 DEF Stamps
      <4> QED
        BY <1>0, <4>1, <4>2
    <3> QED
      BY <1>0, <3>1, <3>2, <3>3
  <2>8. \A y \in writes'[r] : x <= y
    <3>1. writes[r] \in SUBSET Ts /\ minWrite[r] = MinTimestamp(writes[r])
      BY <1>0 DEF TypeOK, QueueOf
    <3>2. /\ MinTimestamp(writes[r]) \in Nat
          /\ \A y \in writes[r] : MinTimestamp(writes[r]) <= y
      BY <3>1, Minimum
    <3>3. \A y \in writes[r] : y \in Nat
      BY <3>1 DEF Ts
    <3> QED
      BY <1>0, <1>1, <1>3, <3>1, <3>2, <3>3
  <2>9. /\ local'[t] = word'[r] /\ word'[r] = writeTs'[r] /\ x <= readTs'[r]
    BY <1>0, <1>1, <2>1, <2>2, <2>3 DEF TypeOK, Marks
  <2>10. local'[t] \in Ts /\ InOrderNext(x, r, local'[t])
    BY <1>0, <1>1, <2>7, <2>8, <2>9, VersionInOrder
  <2>11. ThreadReads(t)'
    <3>1. \A i : Selects(t, i)' = Selects(t, i)
      BY <1>1 DEF Selects
    <3>2. \A i : Selects(t, i)' =>
            /\ accesses'[t][i].seen \in Ts
            /\ InOrderNext(startTs'[t], accesses'[t][i].record,
                           accesses'[t][i].seen)
      BY <1>1, <2>5, <3>1, EntriesStill
    <3>3. /\ local'[t] \in Ts
          /\ InOrderNext(startTs'[t], request'[t].record, local'[t])
      BY <1>1, <2>10
    <3> QED
      BY <3>2, <3>3, ReadsNext
  <2> QED
    BY <1>1, <2>5, <2>6, <2>11, OwnReads
<1>4. CASE TooLate(t, r)
  <2>1. pc' = [pc EXCEPT ![t] = "undo"] /\ UNCHANGED <<local, ready, readTs>>
    BY <1>4, Zenon DEF RequestReadAccess
  <2> QED
    BY <1>2, <2>1
<1>5. CASE ~TooLate(t, r)
  <2>1. /\ pc' = [pc EXCEPT ![t] = "wait"]
        /\ IF x > minWrite[r] THEN BufferReadRequest(t, r)
                              ELSE ReadDirectly(t, r)
    BY <1>5, Zenon DEF RequestReadAccess
  <2>2. BufferReadRequest(t, r) => UNCHANGED <<local, ready, readTs>>
    BY DEF BufferReadRequest
  <2> QED
    BY <1>2, <1>3, <1>5, <2>1, <2>2
<1> QED
  BY <1>4, <1>5

(***************************************************************************)
(* NewAccess enters the answer into the access list.                       *)
(***************************************************************************)
LEMMA EnteredReads ==
  ASSUME ToInv, NEW t \in Thread, NewAccess(t)
  PROVE  ReadsInOrder'
<1> DEFINE e == [record |-> request[t].record, type |-> request[t].type,
                 seen |-> local[t]]
           n == Len(accesses[t])
<1>0. /\ Typed /\ TypeOK /\ Control(t)
      /\ accesses \in [Thread -> Seq(Entry)]
      /\ request \in [Thread -> Request \cup {NoRequest}]
  BY DEF ToInv, Typed
<1>1. /\ pc[t] = "wait" /\ ready[t] /\ pc'[t] = "exec"
      /\ accesses' = [accesses EXCEPT ![t] = Append(@, e)]
      /\ UNCHANGED <<readTs, committed, startTs>>
      /\ \A u \in Thread : u # t =>
           /\ pc'[u] = pc[u] /\ request'[u] = request[u]
           /\ accesses'[u] = accesses[u]
           /\ ready'[u] = ready[u] /\ local'[u] = local[u]
  BY <1>0 DEF NewAccess, TypeOK, content
<1>2. Grows
  <2>1. \A r \in Record : readTs[r] \in Nat
    BY <1>0 DEF TypeOK, Ts
  <2>2. \A r \in Record : readTs[r] <= readTs[r]
    BY <2>1
  <2> QED
    BY <1>1, <2>1, <2>2 DEF Grows
<1>3. n < MaxAccess /\ request[t] \in Request
  BY <1>0, <1>1 DEF Control
<1>4. /\ e \in Entry /\ e.record = request[t].record /\ e.seen = local[t]
  BY <1>0, <1>3 DEF TypeOK, Request, Entry, Record
<1> HIDE DEF e
<1>5. /\ DOMAIN accesses[t] = 1..n /\ DOMAIN accesses'[t] = 1..(n + 1)
      /\ n \in Nat
      /\ \A i \in 1..n : accesses'[t][i] = accesses[t][i]
      /\ accesses'[t][n + 1] = e
  BY <1>0, <1>1, <1>3, <1>4, EntryAdded
<1>6. ASSUME NEW i, Selects(t, i)'
      PROVE  /\ accesses'[t][i].seen \in Ts
             /\ InOrderNext(startTs'[t], accesses'[t][i].record,
                            accesses'[t][i].seen)
  <2>1. CASE i = n + 1
    <3>1. accesses'[t][i] = e
      BY <1>5, <2>1
    <3> QED
      BY <1>1, <1>2, <1>4, <3>1, AnswerStill
  <2>2. CASE i # n + 1
    <3>1. i \in 1..n
      BY <1>5, <1>6, <2>2 DEF Selects
    <3>2. Selects(t, i) /\ accesses'[t][i] = accesses[t][i]
      BY <1>5, <1>6, <3>1 DEF Selects
    <3> QED
      BY <1>1, <1>2, <3>2, EntriesStill
  <2> QED
    BY <2>1, <2>2
<1>7. ThreadReads(t)'
  BY <1>1, <1>6, ReadsNext
<1> QED
  BY <1>1, <1>2, <1>7, OwnReads

(***************************************************************************)
(* CommitTransaction: nobody has read what it overwrites any later than    *)
(* it, because it has announced its writes in time.                        *)
(***************************************************************************)
LEMMA CommittingReads ==
  ASSUME ToInv, NEW t \in Thread, CommitTransaction(t)
  PROVE  ReadsInOrder'
<1> DEFINE a == [ts |-> startTs[t], saw |-> Saw(t), wrote |-> Wrote(t)]
<1>0. /\ Typed /\ TypeOK /\ accesses \in [Thread -> Seq(Entry)]
  BY DEF ToInv, Typed
<1>1. /\ pc[t] = "exec" /\ pc'[t] = "commit" /\ committed' = committed \cup {a}
      /\ UNCHANGED <<readTs, request, startTs, accesses, local, ready>>
      /\ \A u \in Thread : u # t => pc'[u] = pc[u]
  BY <1>0 DEF CommitTransaction, Saw, Wrote, content, txn, TypeOK
<1>2. /\ a.ts = startTs[t] /\ a.saw = Saw(t) /\ a.wrote = Wrote(t)
      /\ Wrote(t) \in SUBSET Record
      /\ \A s \in Saw(t) : \E i \in DOMAIN accesses[t] :
           /\ Selects(t, i) /\ s[1] = accesses[t][i].record
           /\ s[2] = accesses[t][i].seen
      /\ \A r : r \in Wrote(t) <=> \E i \in DOMAIN accesses[t] :
           accesses[t][i].type = "READ_WRITE" /\ accesses[t][i].record = r
  BY <1>0, HistoryTyped DEF ToInv
<1> HIDE DEF a
<1>3. ASSUME NEW r \in a.wrote PROVE readTs[r] <= startTs[t]
  <2>1. PICK i \in DOMAIN accesses[t] :
          accesses[t][i].type = "READ_WRITE" /\ accesses[t][i].record = r
    BY <1>2, <1>3
  <2>2. Announces(t, r)
    BY <1>1, <2>1 DEF Announces
  <2>3. r \in Record
    BY <1>2, <1>3
  <2> QED
    BY <2>2, <2>3, AnnouncedInTime
<1>4. Grows
  <2>1. \A r \in Record : readTs[r] \in Nat
    BY <1>0 DEF TypeOK, Ts
  <2>2. \A r \in Record : readTs[r] <= readTs[r]
    BY <2>1
  <2>3. startTs[t] \in Nat
    BY <1>0 DEF TypeOK, Ts
  <2> QED
    BY <1>1, <1>2, <1>3, <2>1, <2>2, <2>3 DEF Grows
<1>5. ASSUME NEW u \in Thread PROVE ThreadReads(u)'
  <2>1. \A i : Selects(u, i)' = Selects(u, i)
    BY <1>1 DEF Selects
  <2>2. pc'[u] = "wait" => pc[u] = "wait"
    BY <1>1
  <2> QED
    BY <1>1, <1>4, <2>1, <2>2, ReadsStill
<1>6. ASSUME NEW s \in a.saw PROVE InOrderNext(a.ts, s[1], s[2])
  <2>1. PICK i \in DOMAIN accesses[t] :
          /\ Selects(t, i) /\ s[1] = accesses[t][i].record
          /\ s[2] = accesses[t][i].seen
    BY <1>2, <1>6
  <2>2. InOrderNext(startTs'[t], accesses'[t][i].record, accesses'[t][i].seen)
    BY <1>1, <1>4, <2>1, EntriesStill
  <2> QED
    BY <1>1, <1>2, <2>1, <2>2
<1>7. \A b \in committed' : \A s \in b.saw : InOrderNext(b.ts, s[1], s[2])
  BY <1>1, <1>4, <1>6, CommittedStill
<1> QED
  BY <1>5, <1>7 DEF ReadsInOrder, CommittedReads, InOrder, InOrderNext,
                    WroteAt, WroteNext

(***************************************************************************)
(* UpdateBuffer answers the reads up to the next announced write with the  *)
(* version that is then in the record.                                     *)
(***************************************************************************)
LEMMA AnsweredReads ==
  ASSUME ToInv, Typed', WritesKept', Marks', NEW t \in Thread,
         pc[t] \in {"commit", "undo"}, finished[t] < Len(accesses[t]),
         Current(t).type = "READ_WRITE",
         NEW r, r = Current(t).record, NEW x, x = startTs[t],
         UpdateBuffer(t, r),
         UNCHANGED <<pc, startTs, request, accesses, committed>>,
         \/ UNCHANGED <<word, writeTs>>
         \/ /\ word' = [word EXCEPT ![r] = x]
            /\ writeTs' = [writeTs EXCEPT ![r] = x]
  PROVE  ReadsInOrder'
<1> DEFINE n == finished[t] + 1
<1>0. /\ Typed /\ TypeOK /\ Marks /\ QueuesAgree
      /\ \A u \in Thread : Control(u)
      /\ Ts \subseteq Nat
  BY DEF ToInv, Typed, Ts
<1>1. /\ n \in DOMAIN accesses[t] /\ r \in Record /\ Announces(t, r)
      /\ accesses[t][n].record = r /\ accesses[t][n].type = "READ_WRITE"
  BY <1>0, CurrentEntry DEF Entry, Current, ToInv
<1>2. /\ x \in writes[r] /\ x \in Ts \ {0} /\ readTs[r] <= x /\ x <= readTs[r]
  <2>1. Selects(t, n)
    BY <1>1 DEF Selects
  <2>2. x <= readTs[r]
    BY <1>1, <2>1 DEF ToInv, ReadsInOrder, ThreadReads, InOrder
  <2> QED
    BY <1>1, <2>2, AnnouncedInTime
<1>u. Updated(t, r)
  BY <1>0, <1>1, BufferUpdated
<1>3. PICK m \in Ts :
        /\ readTs' = [readTs EXCEPT ![r] = m] /\ readTs[r] <= m
        /\ \A y \in Granted(t, r) : y <= m
        /\ \A y \in Rest(t, r) : m <= y
  BY <1>u DEF Updated
<1>4. /\ writes' = [writes EXCEPT ![r] = Rest(t, r)]
      /\ local' = [u \in Thread |-> IF Wakes(t, r, u) THEN word'[r]
                                                      ELSE local[u]]
      /\ ready' = [u \in Thread |-> ready[u] \/ Wakes(t, r, u)]
  BY <1>u, Zenon DEF Updated
<1>5. Grows
  <2>1. \A q \in Record : readTs[q] \in Nat
    BY <1>0 DEF TypeOK
  <2>2. ASSUME NEW q \in Record
        PROVE  readTs'[q] \in Nat /\ readTs[q] <= readTs'[q]
    <3>1. readTs[q] <= readTs[q]
      BY <2>1
    <3>2. readTs'[q] = IF q = r THEN m ELSE readTs[q]
      BY <1>0, <1>3 DEF TypeOK
    <3> QED
      BY <1>0, <1>3, <2>1, <3>1, <3>2
  <2> QED
    BY <2>1, <2>2 DEF Grows
<1>6. /\ writes'[r] = Rest(t, r) /\ readTs'[r] = m
      /\ word'[r] = writeTs'[r] /\ word'[r] <= readTs[r]
  <2>1. word'[r] = word[r] \/ word'[r] = x
    BY <1>0, <1>1 DEF TypeOK
  <2>2. word[r] = writeTs[r] /\ writeTs[r] <= readTs[r]
    BY <1>0, <1>1 DEF Marks
  <2>3. word'[r] = writeTs'[r]
    BY <1>1 DEF Marks
  <2> QED
    BY <1>0, <1>1, <1>2, <1>3, <1>4, <2>1, <2>2, <2>3 DEF TypeOK
<1>7. ASSUME NEW u \in Thread, Wakes(t, r, u)
      PROVE  /\ local'[u] \in Ts
             /\ InOrderNext(startTs'[u], request'[u].record, local'[u])
  <2> DEFINE y == startTs[u]
             v == word'[r]
  <2>1. /\ y \in Granted(t, r) /\ y \in reads[r] /\ request[u].record = r
        /\ y <= MinTimestamp(Rest(t, r)) /\ y \in Nat
    <3>1. y \in Granted(t, r) /\ request[u].record = r /\ y \in Nat
      BY <1>0, <1>7 DEF Wakes, Waits, TypeOK
    <3> QED
      BY <3>1 DEF Granted
  <2>2. v < y
    <3>1. /\ writes[r] \in SUBSET Ts /\ minWrite[r] = MinTimestamp(writes[r])
          /\ minWrite[r] < y
      BY <1>0, <1>1, <2>1, Queued
    <3>2. minWrite[r] \in writes[r]
      BY <1>2, <3>1, Minimum
    <3>3. readTs[r] <= minWrite[r]
      BY <1>0, <1>1, <3>2 DEF Marks
    <3>4. v \in Nat /\ readTs[r] \in Nat /\ minWrite[r] \in Nat
      BY <1>0, <1>1, <3>1, <3>2 DEF TypeOK, Typed
    <3> HIDE DEF v, y
    <3> QED
      BY <1>6, <2>1, <3>1, <3>3, <3>4 DEF v
  <2>3. \A z \in Rest(t, r) : y <= z
    <3>1. Rest(t, r) \in SUBSET Ts
      BY <1>0, <1>1 DEF Rest, TypeOK
    <3>2. /\ MinTimestamp(Rest(t, r)) \in Nat
          /\ \A z \in Rest(t, r) : MinTimestamp(Rest(t, r)) <= z
      BY <3>1, Minimum
    <3>3. \A z \in Rest(t, r) : z \in Nat
      BY <1>0, <3>1
    <3> HIDE DEF y
    <3> QED
      BY <2>1, <3>2, <3>3
  <2>4. y <= readTs'[r]
    BY <1>3, <1>6, <2>1
  <2>5. local'[u] = v
    BY <1>4, <1>7
  <2>6. v \in Ts /\ InOrderNext(y, r, v)
    <3> HIDE DEF y, v
    <3>1. v = word'[r] /\ v = writeTs'[r]
      BY <1>6 DEF v
    <3> QED
      BY <1>1, <1>6, <2>1, <2>2, <2>3, <2>4, <3>1, VersionInOrder
  <2> QED
    BY <2>1, <2>5, <2>6
<1>8. ASSUME NEW u \in Thread PROVE ThreadReads(u)'
  <2>1. \A i : Selects(u, i)' = Selects(u, i)
    BY DEF Selects
  <2>2. \A i : Selects(u, i)' =>
          /\ accesses'[u][i].seen \in Ts
          /\ InOrderNext(startTs'[u], accesses'[u][i].record,
                         accesses'[u][i].seen)
    BY <1>5, <2>1, EntriesStill
  <2>3. ASSUME pc'[u] = "wait", ready'[u]
        PROVE  /\ local'[u] \in Ts
               /\ InOrderNext(startTs'[u], request'[u].record, local'[u])
    <3>1. CASE Wakes(t, r, u)
      BY <1>7, <3>1
    <3>2. CASE ~Wakes(t, r, u)
      <4>1. ready[u] /\ local'[u] = local[u] /\ pc[u] = "wait"
        BY <1>4, <2>3, <3>2
      <4> QED
        BY <1>5, <4>1, AnswerStill
    <3> QED
      BY <3>1, <3>2
  <2> QED
    BY <2>2, <2>3, ReadsNext
<1>9. \A a \in committed' : \A s \in a.saw : InOrderNext(a.ts, s[1], s[2])
  BY <1>5, CommittedStill
<1> QED
  BY <1>8, <1>9 DEF ReadsInOrder, CommittedReads, InOrder, InOrderNext,
                    WroteAt, WroteNext

(***************************************************************************)
(* The reads are in order after every step.                                *)
(***************************************************************************)
LEMMA NextReads ==
  ToInv /\ [Next]_vars /\ Typed' /\ WritesKept' /\ Marks' => ReadsInOrder'
<1> SUFFICES ASSUME ToInv, [Next]_vars, Typed', WritesKept', Marks'
             PROVE  ReadsInOrder'
  OBVIOUS
<1>1. ASSUME NEW t \in Thread,
             \/ Execute(t) \/ (\E r \in Record : InsertRecord(t, r))
             \/ (\E r \in Record : \E type \in {"READ_ONLY", "READ_WRITE"} :
                   SelectRecordCC(t, r, type))
             \/ RequestWriteAccess(t) \/ ReturnCommitted(t) \/ ReturnAborted(t)
      PROVE  ReadsInOrder'
  BY <1>1, QuietReads
<1>2. ASSUME NEW t \in Thread, RequestReadAccess(t) PROVE ReadsInOrder'
  BY <1>2, DirectReads
<1>3. ASSUME NEW t \in Thread, NewAccess(t) PROVE ReadsInOrder'
  BY <1>3, EnteredReads
<1>4. ASSUME NEW t \in Thread, CommitTransaction(t) PROVE ReadsInOrder'
  BY <1>4, CommittingReads
<1>5. ASSUME NEW t \in Thread, RequestCommit(t) \/ RequestAbort(t)
      PROVE  ReadsInOrder'
  <2>1. /\ pc[t] \in {"commit", "undo"} /\ finished[t] < Len(accesses[t])
        /\ UNCHANGED <<pc, startTs, request, accesses, committed>>
    BY <1>5 DEF RequestCommit, RequestAbort
  <2>2. CASE Current(t).type # "READ_WRITE"
    <3>1. UNCHANGED <<content, local, ready>>
      BY <1>5, <2>2, Zenon DEF RequestCommit, RequestAbort
    <3>2. Grows
      <4>1. \A r \in Record : readTs[r] \in Nat
        BY DEF ToInv, Typed, TypeOK, Ts
      <4>2. \A r \in Record : readTs[r] <= readTs[r]
        BY <4>1
      <4> QED
        BY <2>1, <3>1, <4>1, <4>2 DEF Grows, content
    <3>3. \A i : Selects(t, i)' = Selects(t, i)
      BY <2>1 DEF Selects
    <3>4. ThreadReads(t)'
      BY <2>1, <3>1, <3>2, <3>3, ReadsStill
    <3> QED
      BY <2>1, <3>1, <3>2, <3>4, OwnReads
  <2>3. CASE Current(t).type = "READ_WRITE"
    <3> SUFFICES ASSUME NEW r, r = Current(t).record, NEW x, x = startTs[t]
                 PROVE  ReadsInOrder'
      OBVIOUS
    <3>1. Install(t, r) \/ Drop(t, r)
      BY <1>5, <2>3, CommitInstalls, Zenon DEF RequestAbort
    <3>2. /\ UpdateBuffer(t, r)
          /\ \/ UNCHANGED <<word, writeTs>>
             \/ /\ word' = [word EXCEPT ![r] = x]
                /\ writeTs' = [writeTs EXCEPT ![r] = x]
      BY <3>1 DEF Install, Drop
    <3> QED
      BY <2>1, <2>3, <3>2, AnsweredReads
  <2> QED
    BY <2>2, <2>3
<1>6. ASSUME UNCHANGED vars PROVE ReadsInOrder'
  <2>1. UNCHANGED <<pc, ready, local, startTs, request, accesses, readTs,
                    committed>>
    BY <1>6 DEF vars, content, txn
  <2> QED
    BY <2>1 DEF ToInv, ReadsInOrder, ThreadReads, CommittedReads, InOrder,
                WroteAt, Selects
<1> QED
  BY <1>1, <1>2, <1>3, <1>4, <1>5, <1>6 DEF Next, Step, Select, Joined

-----------------------------------------------------------------------------
(***************************************************************************)
(* The theorems.                                                           *)
(***************************************************************************)

(***************************************************************************)
(* The invariant holds of the records as they are populated.               *)
(***************************************************************************)
LEMMA InitInv == Init => ToInv
<1> SUFFICES ASSUME Init PROVE ToInv
  OBVIOUS
<1>1. /\ MaxTs \in Nat /\ Infinity = MaxTs + 1 /\ Ts = 0..MaxTs
      /\ MaxAccess \in Nat /\ Batch \in Nat \ {0}
  BY ToConstants DEF ToConstants, Infinity, Ts
<1>2. Typed
  <2>1. <<>> \in Seq(Entry) /\ Len(<<>>) = 0
    OBVIOUS
  <2>2. TypeOK
    <3>1. /\ 0 \in Ts /\ Infinity \in 1..Infinity /\ 1 \in 1..Infinity
          /\ Batch \in 0..Batch /\ 0 \in 0..MaxAccess
      BY <1>1
    <3>2. /\ word \in [Record -> Ts] /\ visible \in [Record -> BOOLEAN]
          /\ readTs \in [Record -> Ts] /\ writeTs \in [Record -> Ts]
          /\ minRead \in [Record -> 1..Infinity]
          /\ minWrite \in [Record -> 1..Infinity]
          /\ reads \in [Record -> SUBSET Ts] /\ writes \in [Record -> SUBSET Ts]
          /\ commits \in [Record -> SUBSET Ts]
      BY <3>1 DEF Init
    <3>3. /\ monotone \in 1..Infinity /\ isFinish \in BOOLEAN
          /\ pc \in [Thread -> {"idle", "exec", "write", "read", "wait",
                                "commit", "undo", "done"}]
          /\ left \in [Thread -> 0..Batch] /\ startTs \in [Thread -> Ts]
          /\ local \in [Thread -> Ts \cup {Unread}]
          /\ ready \in [Thread -> BOOLEAN]
          /\ finished \in [Thread -> 0..MaxAccess]
      BY <3>1 DEF Init
    <3> QED
      BY <3>2, <3>3 DEF TypeOK
  <2> QED
    BY <1>1, <2>1, <2>2 DEF Init, Typed
<1>3. DOMAIN <<>> = {} /\ Len(<<>>) = 0
  OBVIOUS
<1>4. ASSUME NEW t \in Thread PROVE Control(t) /\ Distinct(t)
  <2>1. /\ pc[t] = "idle" /\ startTs[t] = 0 /\ accesses[t] = <<>>
        /\ finished[t] = 0 /\ left[t] = Batch /\ ready[t] = FALSE
    BY DEF Init
  <2> QED
    BY <1>1, <1>3, <2>1 DEF Control, Distinct
<1>5. Stamps
  BY DEF Init, Stamps
<1>6. NoCommitBuffered
  BY DEF Init, NoCommitBuffered
<1>7. ASSUME NEW r \in Record PROVE QueueOf(r)
  <2>1. writes[r] = {} /\ reads[r] = {}
    BY DEF Init
  <2>2. minWrite[r] = MinTimestamp({}) /\ minRead[r] = MinTimestamp({})
    BY DEF Init, MinTimestamp
  <2>3. \A u \in Thread : ~Announces(u, r) /\ ~Waits(u, r)
    <3>1. \A u \in Thread : pc[u] = "idle" /\ accesses[u] = <<>>
      BY DEF Init
    <3> QED
      BY <1>3, <3>1 DEF Announces, Waits
  <2> QED
    BY <2>1, <2>2, <2>3 DEF QueueOf
<1>8. QueuesAgree
  BY <1>7, QueuesOf DEF QueuesFine
<1>9. Marks
  BY DEF Init, Marks
<1>10. WritesKept
  BY DEF Init, WritesKept
<1>11. ReadsInOrder
  <2>1. ASSUME NEW u \in Thread PROVE ThreadReads(u)
    <3>1. pc[u] = "idle" /\ accesses[u] = <<>>
      BY DEF Init
    <3> QED
      BY <1>3, <3>1 DEF ThreadReads
  <2>2. CommittedReads
    BY DEF Init, CommittedReads
  <2> QED
    BY <2>1, <2>2 DEF ReadsInOrder
<1> QED
  BY <1>2, <1>4, <1>5, <1>6, <1>8, <1>9, <1>10, <1>11 DEF ToInv

(***************************************************************************)
(* The invariant is inductive.                                             *)
(***************************************************************************)
LEMMA Inductive == Spec => []ToInv
<1>1. ToInv /\ [Next]_vars => ToInv'
  <2> SUFFICES ASSUME ToInv, [Next]_vars PROVE ToInv'
    OBVIOUS
  <2>1. Typed'
    BY NextTyped
  <2>2. \A t \in Thread : Control(t)' /\ Distinct(t)'
    BY NextControl
  <2>3. Stamps'
    BY NextStamps
  <2>4. NoCommitBuffered' /\ QueuesAgree' /\ Marks'
    BY NextQueues
  <2>5. WritesKept'
    BY NextWrites
  <2>6. ReadsInOrder'
    BY <2>1, <2>4, <2>5, NextReads
  <2> QED
    BY <2>1, <2>2, <2>3, <2>4, <2>5, <2>6 DEF ToInv
<1> QED
  BY <1>1, InitInv, PTL DEF Spec

(***************************************************************************)
(* The variables of To keep their types.                                   *)
(***************************************************************************)
THEOREM TypeCorrect == Spec => []TypeOK
<1>1. ToInv => TypeOK
  BY DEF ToInv, Typed
<1> QED
  BY <1>1, Inductive, PTL

(***************************************************************************)
(* The queues of every record hold exactly the announced writes and the    *)
(* waiting reads of the running transactions, whichever of them abort, and *)
(* a read waits for an earlier write that is still announced.              *)
(***************************************************************************)
THEOREM QueuesCorrect == Spec => []QueuesAgree
<1>1. ToInv => QueuesAgree
  BY DEF ToInv
<1> QED
  BY <1>1, Inductive, PTL

(***************************************************************************)
(* RequestCommit never puts a commit off, so the entries that would point  *)
(* to a variable of the committing function are never made.                *)
(***************************************************************************)
THEOREM NothingPutOff == Spec => []NoCommitBuffered
<1>1. ToInv => NoCommitBuffered
  BY DEF ToInv
<1> QED
  BY <1>1, Inductive, PTL

(***************************************************************************)
(* The committed transactions have read what they would have read had they *)
(* run one after the other in the order of their start timestamps.         *)
(***************************************************************************)
THEOREM SerialInTsOrder == Spec => []ReadsInTsOrder
<1>1. ToInv => ReadsInTsOrder
  BY DEF ToInv, ReadsInOrder, CommittedReads, InOrder, WroteAt, ReadsInTsOrder
<1> QED
  BY <1>1, Inductive, PTL

=============================================================================
