--------------------------- MODULE RecoveryProofs ---------------------------
(***************************************************************************)
(* What survives a crash, for every number of threads and records, and     *)
(* every length of the batches: the log of a thread is complete, the value *)
(* log recovers the last update that is on the disk, and the command log   *)
(* replays what the transactions have done.                                *)
(***************************************************************************)
EXTENDS Recovery, FiniteSetTheorems, SequenceTheorems, WellFoundedInduction,
        TLAPS

-----------------------------------------------------------------------------
(***************************************************************************)
(* Numbers and sequences.                                                  *)
(***************************************************************************)

(***************************************************************************)
(* A set of numbers has a least one, which Min finds.                      *)
(***************************************************************************)
LEMMA LeastNatural ==
  ASSUME NEW S, S \subseteq Nat, S # {}
  PROVE  Min(S) \in S /\ \A m \in S : Min(S) <= m
<1> DEFINE Less == OpToRel(<, Nat)
<1>1. IsWellFoundedOn(Less, Nat)
  BY NatLessThanWellFounded, Zenon
<1> HIDE DEF Less
<1>2. \E n \in S : \A m \in S : ~(<<m, n>> \in Less)
  BY <1>1, WFMin
<1>3. \A m, n \in Nat : m < n => <<m, n>> \in Less
  BY DEF Less, OpToRel
<1>4. PICK n \in S : \A m \in S : ~(<<m, n>> \in Less)
  BY <1>2
<1>5. \A m \in S : n <= m
  <2> SUFFICES ASSUME NEW m \in S PROVE n <= m
    OBVIOUS
  <2>1. m \in Nat /\ n \in Nat
    BY <1>4
  <2>2. ~(m < n)
    BY <1>3, <1>4, <2>1
  <2> QED
    BY <2>1, <2>2
<1>6. \E k \in S : \A m \in S : k <= m
  BY <1>5
<1> QED
  BY <1>6 DEF Min

(***************************************************************************)
(* Max finds what is greatest.                                             *)
(***************************************************************************)
LEMMA Greatest ==
  ASSUME NEW S, S \subseteq Nat, NEW x \in S, \A y \in S : y <= x
  PROVE  Max(S) = x
<1>1. \A z \in S : (\A y \in S : z >= y) => z = x
  OBVIOUS
<1>2. \A y \in S : x >= y
  OBVIOUS
<1> QED
  BY <1>1, <1>2 DEF Max

(***************************************************************************)
(* FlattenSeq is defined by a function that flattens ever longer prefixes. *)
(* There is such a function, and its values depend on the prefix only.     *)
(***************************************************************************)
Flattens(f, s, n) ==
  f = [i \in 1..n |-> IF i = 1 THEN s[i] ELSE f[i - 1] \o s[i]]

(***************************************************************************)
(* What such a function is at each prefix.                                 *)
(***************************************************************************)
LEMMA FlattensAt ==
  ASSUME NEW f, NEW s, NEW n, Flattens(f, s, n), NEW k \in 1..n
  PROVE  f[k] = IF k = 1 THEN s[k] ELSE f[k - 1] \o s[k]
<1> DEFINE e(i) == IF i = 1 THEN s[i] ELSE f[i - 1] \o s[i]
<1>1. f = [i \in 1..n |-> e(i)]
  BY DEF Flattens
<1> HIDE DEF e
<1>2. f[k] = e(k)
  BY <1>1
<1> QED
  BY <1>2 DEF e

Agree(s, u, m) == \A i \in 1..m : u[i] = s[i]

(***************************************************************************)
(* Functions that flatten sequences with a common prefix agree on it.      *)
(***************************************************************************)
LEMMA FlattensPrefix ==
  \A s, u, f, g : \A n \in Nat : \A m \in 0..n : \A j \in 1..m :
    Agree(s, u, m) /\ Flattens(f, s, n) /\ Flattens(g, u, m) => f[j] = g[j]
<1> TAKE s, u, f, g
<1> TAKE n \in Nat
<1> TAKE m \in 0..n
<1> TAKE j \in 1..m
<1> HAVE Agree(s, u, m) /\ Flattens(f, s, n) /\ Flattens(g, u, m)
<1> DEFINE Bad == {i \in 1..m : f[i] # g[i]}
<1> SUFFICES ASSUME Bad # {} PROVE FALSE
  OBVIOUS
<1> DEFINE k == Min(Bad)
<1>1. k \in Bad /\ \A i \in Bad : k <= i
  BY LeastNatural
<1> HIDE DEF k
<1>2. f[k] = IF k = 1 THEN s[k] ELSE f[k - 1] \o s[k]
  BY <1>1, FlattensAt
<1>3. g[k] = IF k = 1 THEN u[k] ELSE g[k - 1] \o u[k]
  BY <1>1, FlattensAt
<1>4. k # 1 => f[k - 1] = g[k - 1]
  BY <1>1
<1> QED
  BY <1>1, <1>2, <1>3, <1>4 DEF Agree

(***************************************************************************)
(* There is a function that flattens the prefixes of a sequence.           *)
(***************************************************************************)
LEMMA FlattensExists ==
  ASSUME NEW s, NEW n \in Nat
  PROVE  \E f : Flattens(f, s, n)
<1> DEFINE Bad == {i \in Nat : ~\E f : Flattens(f, s, i)}
<1> SUFFICES ASSUME Bad # {} PROVE FALSE
  OBVIOUS
<1> DEFINE k == Min(Bad)
<1>1. k \in Bad /\ \A i \in Bad : k <= i
  BY LeastNatural
<1> HIDE DEF k
<1>a. k \in Nat
  BY <1>1
<1>2. CASE k = 0
  <2> DEFINE e == [i \in 1..0 |-> s[i]]
  <2>1. Flattens(e, s, 0)
    BY DEF Flattens
  <2> QED
    BY <1>1, <1>2, <2>1
<1>3. CASE k # 0
  <2>1. k - 1 \in Nat /\ k - 1 \notin Bad
    BY <1>1, <1>3
  <2>2. PICK f : Flattens(f, s, k - 1)
    BY <2>1
  <2> DEFINE d(i) == IF i = 1 THEN s[i] ELSE f[i - 1] \o s[i]
             e == [i \in 1..k |-> d(i)]
  <2>3. \A i \in 1..(k - 1) : e[i] = f[i]
    <3> SUFFICES ASSUME NEW i \in 1..(k - 1) PROVE e[i] = f[i]
      OBVIOUS
    <3>1. f[i] = IF i = 1 THEN s[i] ELSE f[i - 1] \o s[i]
      BY <2>1, <2>2, FlattensAt
    <3>2. i \in 1..k
      BY <1>a
    <3> QED
      BY <3>1, <3>2
  <2>4. e = [i \in 1..k |-> IF i = 1 THEN s[i] ELSE e[i - 1] \o s[i]]
    <3>1. \A i \in 1..k : i # 1 => e[i - 1] = f[i - 1]
      <4>1. \A i \in 1..k : i # 1 => i - 1 \in 1..(k - 1)
        BY <1>a
      <4> HIDE DEF e
      <4> QED
        BY <2>3, <4>1
    <3>2. \A i \in 1..k : d(i) = IF i = 1 THEN s[i] ELSE e[i - 1] \o s[i]
      <4> HIDE DEF e
      <4> QED
        BY <3>1
    <3> HIDE DEF d
    <3> QED
      BY <3>2
  <2> HIDE DEF e
  <2>5. Flattens(e, s, k)
    BY <2>4 DEF Flattens
  <2> QED
    BY <1>1, <2>5
<1> QED
  BY <1>2, <1>3

(***************************************************************************)
(* FlattenSeq of a sequence is the last value of any such function.        *)
(***************************************************************************)
LEMMA FlattenSeqIs ==
  ASSUME NEW s, Len(s) \in Nat \ {0}, NEW f, Flattens(f, s, Len(s))
  PROVE  FlattenSeq(s) = f[Len(s)]
<1>1. \A g : g = [i \in 1..Len(s) |-> IF i = 1 THEN s[i] ELSE g[i - 1] \o s[i]]
               => g = f
  <2> SUFFICES ASSUME NEW g, Flattens(g, s, Len(s)) PROVE g = f
    BY DEF Flattens
  <2>1. \A i \in 1..Len(s) : f[i] = g[i]
    <3>1. Len(s) \in Nat /\ Len(s) \in 0..Len(s) /\ Agree(s, s, Len(s))
      BY DEF Agree
    <3> QED
      BY <3>1, FlattensPrefix
  <2> QED
    BY <2>1 DEF Flattens
<1>2. f = [i \in 1..Len(s) |-> IF i = 1 THEN s[i] ELSE f[i - 1] \o s[i]]
  BY DEF Flattens
<1> QED
  BY <1>1, <1>2 DEF FlattenSeq

(***************************************************************************)
(* So it concatenates: what is appended comes last.                        *)
(***************************************************************************)
LEMMA FlattenEmpty == FlattenSeq(<<>>) = <<>>
BY DEF FlattenSeq

(***************************************************************************)
(* A last sequence is flattened to the end.                                *)
(***************************************************************************)
LEMMA FlattenAppend ==
  ASSUME NEW s \in Seq(Seq(Nat)), NEW x \in Seq(Nat)
  PROVE  FlattenSeq(Append(s, x)) = FlattenSeq(s) \o x
<1> DEFINE u == Append(s, x)
           n == Len(s)
<1>1. n \in Nat /\ Len(u) = n + 1 /\ u[n + 1] = x /\ \A i \in 1..n : u[i] = s[i]
  BY AppendProperties, LenProperties
<1> HIDE DEF u, n
<1>2. n + 1 \in Nat /\ n + 1 \in Nat \ {0} /\ n + 1 \in 1..(n + 1) /\ n \in 0..(n + 1)
  BY <1>1
<1>3. PICK f : Flattens(f, u, n + 1)
  BY <1>2, FlattensExists
<1>4. FlattenSeq(u) = f[n + 1]
  BY <1>1, <1>2, <1>3, FlattenSeqIs
<1>5. f[n + 1] = IF n + 1 = 1 THEN u[n + 1] ELSE f[n + 1 - 1] \o u[n + 1]
  BY <1>2, <1>3, FlattensAt
<1>6. CASE n = 0
  <2>1. s = <<>>
    BY <1>6, EmptySeq DEF n
  <2>2. FlattenSeq(u) = x
    BY <1>1, <1>4, <1>5, <1>6
  <2>3. FlattenSeq(s) \o x = x
    BY <2>1, FlattenEmpty, ConcatEmptySeq
  <2> QED
    BY <2>2, <2>3 DEF u
<1>7. CASE n # 0
  <2>1. PICK g : Flattens(g, s, n)
    BY <1>1, FlattensExists
  <2>2. FlattenSeq(s) = g[n]
    <3>1. Len(s) \in Nat \ {0} /\ Flattens(g, s, Len(s))
      BY <1>1, <1>7, <2>1 DEF n
    <3> QED
      BY <3>1, FlattenSeqIs DEF n
  <2>3. f[n] = g[n]
    <3>1. Agree(u, s, n)
      BY <1>1 DEF Agree
    <3>2. \A i \in 1..n : f[i] = g[i]
      BY <1>2, <1>3, <2>1, <3>1, FlattensPrefix
    <3> QED
      BY <1>1, <1>7, <3>2
  <2>4. n + 1 - 1 = n /\ n + 1 # 1
    BY <1>1, <1>7
  <2> QED
    BY <1>1, <1>4, <1>5, <2>2, <2>3, <2>4 DEF u
<1> QED
  BY <1>6, <1>7

(***************************************************************************)
(* The entries of a flattened sequence are those of its members.           *)
(***************************************************************************)
LEMMA SetAppended ==
  ASSUME NEW S, NEW s \in Seq(S), NEW x \in S
  PROVE  ToSet(Append(s, x)) = ToSet(s) \cup {x}
<1> DEFINE u == Append(s, x)
<1>1. /\ Len(s) \in Nat /\ DOMAIN s = 1..Len(s) /\ DOMAIN u = 1..(Len(s) + 1)
      /\ u[Len(s) + 1] = x /\ \A i \in 1..Len(s) : u[i] = s[i]
  BY AppendProperties, LenProperties
<1> HIDE DEF u
<1>2. \A y \in ToSet(u) : y \in ToSet(s) \cup {x}
  BY <1>1 DEF ToSet
<1>3. \A i \in 1..Len(s) : i \in 1..(Len(s) + 1)
  BY <1>1
<1>4. Len(s) + 1 \in 1..(Len(s) + 1)
  BY <1>1
<1>5. \A y \in ToSet(s) \cup {x} : y \in ToSet(u)
  BY <1>1, <1>3, <1>4 DEF ToSet
<1> QED
  BY <1>2, <1>5 DEF u

(***************************************************************************)
(* Two sequences, one after the other, have the elements of both.          *)
(***************************************************************************)
LEMMA SetConcatenated ==
  ASSUME NEW S, NEW s \in Seq(S), NEW w \in Seq(S)
  PROVE  ToSet(s \o w) = ToSet(s) \cup ToSet(w)
<1> DEFINE u == s \o w
<1>1. /\ Len(s) \in Nat /\ DOMAIN s = 1..Len(s) /\ Len(w) \in Nat
      /\ DOMAIN w = 1..Len(w) /\ DOMAIN u = 1..(Len(s) + Len(w))
      /\ \A i \in 1..(Len(s) + Len(w)) :
           u[i] = IF i <= Len(s) THEN s[i] ELSE w[i - Len(s)]
  BY ConcatProperties, LenProperties
<1> HIDE DEF u
<1>2. ASSUME NEW y \in ToSet(u) PROVE y \in ToSet(s) \cup ToSet(w)
  <2>1. PICK i \in 1..(Len(s) + Len(w)) : y = u[i]
    BY <1>1 DEF ToSet
  <2>2. CASE i <= Len(s)
    BY <1>1, <2>1, <2>2 DEF ToSet
  <2>3. CASE i > Len(s)
    <3>1. i - Len(s) \in 1..Len(w) /\ y = w[i - Len(s)]
      BY <1>1, <2>1, <2>3
    <3> QED
      BY <1>1, <3>1 DEF ToSet
  <2> QED
    BY <1>1, <2>2, <2>3
<1>3. ASSUME NEW y \in ToSet(s) PROVE y \in ToSet(u)
  <2>1. PICK i \in 1..Len(s) : y = s[i]
    BY <1>1 DEF ToSet
  <2>2. i \in 1..(Len(s) + Len(w)) /\ y = u[i]
    BY <1>1, <2>1
  <2> QED
    BY <1>1, <2>2 DEF ToSet
<1>4. ASSUME NEW y \in ToSet(w) PROVE y \in ToSet(u)
  <2>1. PICK i \in 1..Len(w) : y = w[i]
    BY <1>1 DEF ToSet
  <2>2. /\ i + Len(s) \in 1..(Len(s) + Len(w)) /\ (i + Len(s)) - Len(s) = i
        /\ ~(i + Len(s) <= Len(s))
    BY <1>1
  <2>3. y = u[i + Len(s)]
    BY <1>1, <2>1, <2>2
  <2> QED
    BY <1>1, <2>2, <2>3 DEF ToSet
<1> QED
  BY <1>2, <1>3, <1>4 DEF u

(***************************************************************************)
(* A flattened sequence of sequences has the elements of all of them.      *)
(***************************************************************************)
LEMMA FlattenSets ==
  ASSUME NEW s \in Seq(Seq(Nat))
  PROVE  /\ FlattenSeq(s) \in Seq(Nat)
         /\ ToSet(FlattenSeq(s)) = UNION {ToSet(s[i]) : i \in DOMAIN s}
<1> DEFINE n == Len(s)
           Upto(k) == UNION {ToSet(s[i]) : i \in 1..k}
<1>1. n \in Nat /\ DOMAIN s = 1..n /\ \A i \in 1..n : s[i] \in Seq(Nat)
  BY LenProperties, ElementOfSeq
<1>2. CASE n = 0
  <2>1. s = <<>>
    BY <1>2, EmptySeq
  <2>2. ToSet(<<>>) = {} /\ FlattenSeq(s) = <<>>
    BY <2>1, FlattenEmpty DEF ToSet
  <2>3. <<>> \in Seq(Nat) /\ DOMAIN s = {}
    BY <2>1
  <2> QED
    BY <2>2, <2>3
<1>3. CASE n # 0
  <2>1. PICK f : Flattens(f, s, n)
    BY <1>1, FlattensExists
  <2>2. FlattenSeq(s) = f[n]
    BY <1>1, <1>3, <2>1, FlattenSeqIs
  <2>3. \A k \in 1..n : f[k] = IF k = 1 THEN s[k] ELSE f[k - 1] \o s[k]
    BY <2>1, FlattensAt
  <2> DEFINE Good(k) == f[k] \in Seq(Nat) /\ ToSet(f[k]) = Upto(k)
             Bad == {k \in 1..n : ~Good(k)}
  <2>4. ASSUME NEW k \in 1..n, k # 1 => Good(k - 1) PROVE Good(k)
    <3>1. CASE k = 1
      <4>1. f[k] = s[1]
        BY <2>3, <3>1
      <4>2. Upto(1) = ToSet(s[1])
        <5>1. 1..1 = {1}
          OBVIOUS
        <5> QED
          BY <5>1
      <4> QED
        BY <1>1, <3>1, <4>1, <4>2
    <3>2. CASE k # 1
      <4>1. f[k] = f[k - 1] \o s[k] /\ f[k - 1] \in Seq(Nat) /\ s[k] \in Seq(Nat)
        BY <1>1, <2>3, <2>4, <3>2
      <4>2. f[k] \in Seq(Nat) /\ ToSet(f[k]) = ToSet(f[k - 1]) \cup ToSet(s[k])
        BY <4>1, ConcatProperties, SetConcatenated
      <4>3. Upto(k) = Upto(k - 1) \cup ToSet(s[k])
        <5>1. 1..k = 1..(k - 1) \cup {k}
          BY <1>1, <3>2
        <5> QED
          BY <5>1
      <4> QED
        BY <2>4, <3>2, <4>2, <4>3
    <3> QED
      BY <3>1, <3>2
  <2> HIDE DEF Good
  <2>5. Bad = {}
    <3> SUFFICES ASSUME Bad # {} PROVE FALSE
      OBVIOUS
    <3> DEFINE k == Min(Bad)
    <3>a. Bad \subseteq Nat
      BY <1>1
    <3>1. k \in Bad /\ \A i \in Bad : k <= i
      <4> HIDE DEF Bad
      <4> QED
        BY <3>a, LeastNatural
    <3> HIDE DEF k
    <3>2. k \in 1..n /\ ~Good(k) /\ (k # 1 => k - 1 \in 1..n)
      BY <1>1, <3>1
    <3>3. k # 1 => k - 1 \notin Bad
      BY <1>1, <3>1, <3>2
    <3> QED
      BY <2>4, <3>2, <3>3
  <2>6. n \in 1..n
    BY <1>1, <1>3
  <2>7. Good(n)
    BY <2>5, <2>6
  <2> QED
    BY <1>1, <2>2, <2>7 DEF Good
<1> QED
  BY <1>2, <1>3

-----------------------------------------------------------------------------
(***************************************************************************)
(* Types, and what the state says of the step a thread is at.  A commit is *)
(* the entry of the history that Install makes.                            *)
(***************************************************************************)
SawType == UNION {[D -> Nat] : D \in SUBSET Record}

CommitType == [ts : Nat, thread : Thread, epoch : Nat, saw : SawType,
               wrote : SUBSET Record]

TxnType == [pc : {"idle", "install", "log", "sync", "cleanup"}, saw : SawType,
            writes : SUBSET Record, epoch : Nat, ts : Nat]

ChunkType == [epoch : {CleanedUp} \cup Nat, entries : Seq(Nat), whole : BOOLEAN]

EntryType == IF logType = "VALUE" THEN [ts : Nat, record : Record, content : Nat]
             ELSE Nat

Stamps == {c.ts : c \in ToSet(commits)}

Stamped == {0} \cup Stamps

TypeInv ==
  /\ logType \in LogType /\ image \in Images
  /\ phase \in {"run", "replay", "failed"} /\ epoch \in 1..MaxEpoch
  /\ commits \in Seq(CommitType) /\ monotone = Len(commits) + 1
  /\ txn \in [Thread -> TxnType] /\ left \in [Thread -> Closed..Batch]
  /\ buffer \in [Thread -> Seq(Nat)]
  /\ lastEpoch \in [Thread -> {CleanedUp} \cup 1..epoch]
  /\ pending \in [Thread -> Seq(ChunkType)] /\ file \in [Thread -> Seq(ChunkType)]
  /\ store \in [Record -> Nat] /\ recovered \in [Record -> Nat]
  /\ stamp \in [Record -> Nat]
  /\ todo \in [Thread -> Seq(SUBSET EntryType)]

PcOf(t) ==
  /\ txn[t].pc = "idle" => txn[t] = NoTxn
  /\ txn[t].pc = "cleanup" => txn[t] = [NoTxn EXCEPT !.pc = "cleanup"]
  /\ txn[t].pc \in {"install", "log", "sync"} =>
       left[t] > 0 /\ txn[t].epoch \in 1..epoch
  /\ txn[t].pc = "install" => txn[t].ts = 0
  /\ txn[t].pc \in {"log", "sync"} => txn[t].ts \in Stamps
  /\ left[t] = Closed => txn[t].pc = "idle"
  /\ IF txn[t].pc \in {"sync", "cleanup"} THEN Len(pending[t]) = 1
                                          ELSE pending[t] = <<>>

PcInv == \A t \in Thread : PcOf(t)

(***************************************************************************)
(* All timestamps in logs and stores are those of commits.                 *)
(***************************************************************************)
StampInv ==
  /\ \A r \in Record : store[r] \in Stamped /\ stamp[r] \in Stamped
  /\ \A t \in Thread :
       /\ ToSet(buffer[t]) \subseteq Stamps
       /\ \A i \in DOMAIN pending[t] : ToSet(pending[t][i].entries) \subseteq Stamps
       /\ phase # "failed" =>
            \A i \in DOMAIN file[t] : ToSet(file[t][i].entries) \subseteq Stamps
       /\ \A i \in DOMAIN todo[t] : \A x \in todo[t][i] :
            (IF logType = "VALUE" THEN x.ts ELSE x) \in Stamps

StateInv == TypeInv /\ PcInv /\ StampInv

(***************************************************************************)
(* The contents, too, are versions that commits have written: those that   *)
(* a transaction has seen, which includes what it updates, and those that  *)
(* are logged and recovered.                                               *)
(***************************************************************************)
Saw(x, writes, S) == writes \subseteq DOMAIN x.saw /\ \A r \in DOMAIN x.saw : x.saw[r] \in S

SawInv ==
  /\ \A t \in Thread : Saw(txn[t], txn[t].writes, Stamped)
  /\ \A c \in ToSet(commits) : Saw(c, c.wrote, Stamped)
  /\ \A r \in Record : recovered[r] \in Stamped
  /\ logType = "VALUE" => \A t \in Thread : \A i \in DOMAIN todo[t] :
                            \A x \in todo[t][i] : x.content \in Stamped

(***************************************************************************)
(* What is written to a file comes after what is there.                    *)
(***************************************************************************)
LEMMA Extended ==
  ASSUME NEW S, NEW f \in Seq(S), NEW p \in Seq(S)
  PROVE  /\ p = <<>> => f \o p = f
         /\ Len(p) = 1 => p[1] \in S /\ f \o p = Append(f, p[1])
<1>1. p = <<>> => f \o p = f
  BY ConcatEmptySeq
<1>2. ASSUME Len(p) = 1 PROVE p[1] \in S /\ f \o p = Append(f, p[1])
  <2>1. p[1] \in S
    BY <1>2, ElementOfSeq
  <2>2. p = <<p[1]>>
    BY <1>2
  <2> QED
    BY <2>1, <2>2, AppendIsConcat
<1> QED
  BY <1>1, <1>2

(***************************************************************************)
(* The entries of a file are those of its chunks, in order.                *)
(***************************************************************************)
LEMMA EntriesOf ==
  ASSUME NEW f \in Seq(ChunkType)
  PROVE  /\ Entries(f) \in Seq(Nat)
         /\ \A x : x \in ToSet(Entries(f)) <=>
                     \E i \in DOMAIN f : x \in ToSet(f[i].entries)
         /\ \A c \in ChunkType : Entries(Append(f, c)) = Entries(f) \o c.entries
<1> DEFINE s == [i \in DOMAIN f |-> f[i].entries]
<1>1. DOMAIN f = 1..Len(f) /\ Len(f) \in Nat /\ \A i \in 1..Len(f) : f[i] \in ChunkType
  BY LenProperties, ElementOfSeq
<1>2. \A i \in 1..Len(f) : f[i].entries \in Seq(Nat)
  BY <1>1 DEF ChunkType
<1>3. s \in Seq(Seq(Nat)) /\ DOMAIN s = DOMAIN f
  BY <1>1, <1>2, IsASeq
<1>4. Entries(f) = FlattenSeq(s)
  BY DEF Entries
<1>5. \A x : x \in ToSet(Entries(f)) <=> \E i \in DOMAIN f : x \in ToSet(f[i].entries)
  <2> HIDE DEF s
  <2>1. ToSet(Entries(f)) = UNION {ToSet(s[i]) : i \in DOMAIN s}
    BY <1>3, <1>4, FlattenSets
  <2>2. \A i \in DOMAIN f : s[i] = f[i].entries
    BY DEF s
  <2> QED
    BY <1>3, <2>1, <2>2
<1>6. ASSUME NEW c \in ChunkType PROVE Entries(Append(f, c)) = Entries(f) \o c.entries
  <2> DEFINE g == Append(f, c)
             w == [i \in DOMAIN g |-> g[i].entries]
  <2>1. c.entries \in Seq(Nat)
    BY DEF ChunkType
  <2>2. /\ DOMAIN g = 1..(Len(f) + 1) /\ g[Len(f) + 1] = c
        /\ \A i \in 1..Len(f) : g[i] = f[i]
    BY <1>1, AppendProperties
  <2>3. w = Append(s, c.entries)
    <3> DEFINE v == Append(s, c.entries)
    <3>1. Len(s) = Len(f)
      BY <1>1, <1>3, LenProperties
    <3>2. /\ DOMAIN v = 1..(Len(f) + 1) /\ v[Len(f) + 1] = c.entries
          /\ \A i \in 1..Len(f) : v[i] = s[i]
          /\ v \in Seq(Seq(Nat))
      BY <1>3, <2>1, <3>1, AppendProperties, LenProperties
    <3>3. \A i \in 1..(Len(f) + 1) : v[i] = g[i].entries
      <4> SUFFICES ASSUME NEW i \in 1..(Len(f) + 1) PROVE v[i] = g[i].entries
        OBVIOUS
      <4>1. CASE i = Len(f) + 1
        BY <2>2, <3>2, <4>1
      <4>2. CASE i \in 1..Len(f)
        BY <1>1, <2>2, <3>2, <4>2
      <4> QED
        BY <1>1, <4>1, <4>2
    <3>4. v = [i \in 1..(Len(f) + 1) |-> v[i]]
      BY <1>1, <3>2, IsASeq
    <3> QED
      BY <2>2, <3>3, <3>4
  <2>4. Entries(g) = FlattenSeq(w)
    BY DEF Entries
  <2> QED
    BY <1>3, <1>4, <2>1, <2>3, <2>4, FlattenAppend
<1> QED
  BY <1>3, <1>4, <1>5, <1>6, FlattenSets

(***************************************************************************)
(* A sequence still ascends when what is larger than all of it is          *)
(* appended.                                                               *)
(***************************************************************************)
LEMMA Ascending ==
  ASSUME NEW s \in Seq(Nat), NEW x \in Nat, Ascends(s), \A y \in ToSet(s) : y < x
  PROVE  Ascends(Append(s, x))
<1> DEFINE u == Append(s, x)
<1>1. /\ Len(s) \in Nat /\ DOMAIN s = 1..Len(s) /\ DOMAIN u = 1..(Len(s) + 1)
      /\ u[Len(s) + 1] = x /\ \A i \in 1..Len(s) : u[i] = s[i]
  BY AppendProperties, LenProperties
<1>2. \A i \in 1..Len(s) : s[i] < x
  BY <1>1 DEF ToSet
<1> HIDE DEF u
<1>3. ASSUME NEW i \in DOMAIN u, NEW j \in DOMAIN u, i < j PROVE u[i] < u[j]
  <2>1. i \in 1..Len(s)
    BY <1>1, <1>3
  <2>2. CASE j = Len(s) + 1
    BY <1>1, <1>2, <2>1, <2>2
  <2>3. CASE j \in 1..Len(s)
    BY <1>1, <1>3, <2>1, <2>3 DEF Ascends
  <2> QED
    BY <1>1, <2>2, <2>3
<1> QED
  BY <1>3 DEF Ascends, u

(***************************************************************************)
(* The epoch of a timestamp weighs more than the counter.                  *)
(***************************************************************************)
LEMMA CommitTsOrder ==
  ASSUME NEW d \in Nat, NEW e \in Nat, NEW i \in Nat, NEW j \in Nat,
         i < TsSpan, j < TsSpan
  PROVE  /\ CommitTs(d, i) \in Nat /\ CommitTs(d, i) >= i
         /\ d < e => CommitTs(d, i) < CommitTs(e, j)
         /\ d = e /\ i < j => CommitTs(d, i) < CommitTs(e, j)
<1>1. TsSpan \in Nat \ {0}
  BY RecoveryConstants
<1>2. \A k \in Nat : k < TsSpan => k % TsSpan = k
  BY <1>1
<1>3. CommitTs(d, i) = d * TsSpan + i /\ CommitTs(e, j) = e * TsSpan + j
  BY <1>2 DEF CommitTs
<1>4. d * TsSpan \in Nat /\ e * TsSpan \in Nat
  BY <1>1
<1>5. ASSUME d < e PROVE d * TsSpan + TsSpan <= e * TsSpan
  <2>1. PICK k \in Nat : e = d + 1 + k
    <3>1. e - (d + 1) \in Nat /\ e = d + 1 + (e - (d + 1))
      BY <1>5
    <3> QED
      BY <3>1
  <2>2. e * TsSpan = d * TsSpan + TsSpan + k * TsSpan /\ k * TsSpan \in Nat
    BY <1>1, <2>1
  <2> QED
    BY <1>1, <1>4, <2>2
<1> QED
  BY <1>1, <1>3, <1>4, <1>5

-----------------------------------------------------------------------------
(***************************************************************************)
(* The types and program counters are kept, whatever the counter does.     *)
(***************************************************************************)
LEMMA CommitTsType ==
  ASSUME NEW e \in Nat, NEW n \in Nat
  PROVE  CommitTs(e, n) \in Nat
<1>1. TsSpan \in Nat \ {0}
  BY RecoveryConstants
<1>2. n % TsSpan \in Nat /\ e * TsSpan \in Nat
  BY <1>1
<1> QED
  BY <1>2 DEF CommitTs

(***************************************************************************)
(* An idle thread has a transaction of the type, also when it is about to  *)
(* clean up.                                                               *)
(***************************************************************************)
LEMMA NoTxnType == NoTxn \in TxnType /\ [NoTxn EXCEPT !.pc = "cleanup"] \in TxnType
<1>1. <<>> \in [{} -> Nat]
  OBVIOUS
<1>2. <<>> \in SawType
  BY <1>1 DEF SawType
<1> QED
  BY <1>2 DEF NoTxn, TxnType

(***************************************************************************)
(* The commit that a timestamp stands for.                                 *)
(***************************************************************************)
LEMMA CommitOf ==
  ASSUME NEW x \in Stamps
  PROVE  Commit(x) \in ToSet(commits) /\ Commit(x).ts = x
BY DEF Stamps, Commit

(***************************************************************************)
(* The fields of a commit have their types.                                *)
(***************************************************************************)
LEMMA CommitIsTyped ==
  ASSUME TypeInv, NEW c \in ToSet(commits)
  PROVE  /\ c \in CommitType /\ c.ts \in Nat /\ c.thread \in Thread /\ c.epoch \in Nat
         /\ c.wrote \subseteq Record /\ c.saw \in SawType
<1>1. c \in CommitType
  BY ElementOfSeq, LenProperties DEF TypeInv, ToSet
<1> QED
  BY <1>1 DEF CommitType

(***************************************************************************)
(* What is logged of an update is a version, new or old.                   *)
(***************************************************************************)
LEMMA ContentStamped ==
  ASSUME SawInv, NEW c \in ToSet(commits), NEW r \in c.wrote
  PROVE  Content(c, r) \in Stamped
<1>1. r \in DOMAIN c.saw /\ c.saw[r] \in Stamped
  BY DEF SawInv, Saw
<1>2. c.ts \in Stamped
  BY DEF Stamped, Stamps
<1> QED
  BY <1>1, <1>2 DEF Content

(***************************************************************************)
(* The entries of two chunks in a row are stamped if those of each are.    *)
(***************************************************************************)
LEMMA StampsOfFiles ==
  ASSUME NEW f \in Seq(ChunkType), NEW p \in Seq(ChunkType),
         \A i \in DOMAIN f : ToSet(f[i].entries) \subseteq Stamps,
         \A i \in DOMAIN p : ToSet(p[i].entries) \subseteq Stamps
  PROVE  /\ f \o p \in Seq(ChunkType)
         /\ \A i \in DOMAIN (f \o p) : ToSet((f \o p)[i].entries) \subseteq Stamps
<1> DEFINE u == f \o p
<1>1. /\ u \in Seq(ChunkType) /\ DOMAIN u = 1..(Len(f) + Len(p))
      /\ DOMAIN f = 1..Len(f) /\ DOMAIN p = 1..Len(p) /\ Len(f) \in Nat /\ Len(p) \in Nat
      /\ \A i \in 1..(Len(f) + Len(p)) :
           u[i] = IF i <= Len(f) THEN f[i] ELSE p[i - Len(f)]
  BY ConcatProperties, LenProperties
<1> HIDE DEF u
<1>2. ASSUME NEW i \in DOMAIN u PROVE ToSet(u[i].entries) \subseteq Stamps
  <2>1. CASE i <= Len(f)
    BY <1>1, <2>1
  <2>2. CASE ~(i <= Len(f))
    <3>1. i - Len(f) \in 1..Len(p) /\ u[i] = p[i - Len(f)]
      BY <1>1, <2>2
    <3> QED
      BY <1>1, <3>1
  <2> QED
    BY <2>1, <2>2
<1> QED
  BY <1>1, <1>2 DEF u

(***************************************************************************)
(* The initial states are of their types.                                  *)
(***************************************************************************)
LEMMA StateInit == Init => StateInv
<1> SUFFICES ASSUME Init PROVE StateInv
  OBVIOUS
<1> USE DEF Init
<1>1. TypeInv
  <2>1. TsSpan \in Nat \ {0} /\ MaxEpoch \in Nat \ {0} /\ Batch \in Nat \ {0}
    BY RecoveryConstants
  <2>2. <<>> \in Seq(CommitType) /\ Len(<<>>) = 0
    BY EmptySeq
  <2>3. buffer \in [Thread -> Seq(Nat)] /\ todo \in [Thread -> Seq(SUBSET EntryType)]
    BY EmptySeq
  <2>4. pending \in [Thread -> Seq(ChunkType)] /\ file \in [Thread -> Seq(ChunkType)]
    BY EmptySeq
  <2> QED
    BY <2>1, <2>2, <2>3, <2>4, NoTxnType DEF TypeInv, Closed
<1>2. PcInv
  <2>1. Batch # Closed
    BY RecoveryConstants DEF Closed
  <2> QED
    BY <2>1 DEF PcInv, PcOf, NoTxn
<1>3. StampInv
  BY DEF StampInv, Stamped, ToSet
<1> QED
  BY <1>1, <1>2, <1>3 DEF StateInv

(***************************************************************************)
(* The steps of a transaction.                                             *)
(***************************************************************************)
LEMMA StateGetEpoch ==
  ASSUME StateInv, NEW t \in Thread, NEW p \in Procedures, GetEpoch(t, p)
  PROVE  StateInv'
<1> USE DEF StateInv
<1>1. p.writes \subseteq p.reads /\ p.reads \subseteq Record
  BY RecoveryConstants
<1> DEFINE x == [pc |-> "install", saw |-> [r \in p.reads |-> store[r]],
                 writes |-> p.writes, epoch |-> epoch, ts |-> 0]
<1>2. x \in TxnType
  <2>1. [r \in p.reads |-> store[r]] \in SawType
    <3>1. [r \in p.reads |-> store[r]] \in [p.reads -> Nat]
      BY <1>1 DEF TypeInv
    <3> QED
      BY <1>1, <3>1 DEF SawType
  <2>2. epoch \in Nat
    BY RecoveryConstants DEF TypeInv
  <2> QED
    BY <1>1, <2>1, <2>2 DEF TxnType
<1>3. txn' = [txn EXCEPT ![t] = x] /\ UNCHANGED <<built, phase, epoch, monotone,
        store, left, log, commits, replay>>
  BY DEF GetEpoch
<1>4. TypeInv'
  BY <1>2, <1>3 DEF TypeInv, built, log, replay, EntryType
<1>5. PcInv'
  <2>1. left[t] > 0 /\ txn[t].pc = "idle" /\ txn'[t] = x
    BY <1>3 DEF GetEpoch, TypeInv
  <2>2. \A u \in Thread : u # t => txn'[u] = txn[u]
    BY <1>3 DEF TypeInv
  <2>3. epoch \in 1..epoch /\ left[t] # Closed
    BY <2>1, RecoveryConstants DEF TypeInv, Closed
  <2> QED
    BY <1>3, <2>1, <2>2, <2>3 DEF PcInv, PcOf, Stamps, log
<1>6. StampInv'
  BY <1>3 DEF StampInv, Stamped, Stamps, log, replay, built
<1> QED
  BY <1>4, <1>5, <1>6

(***************************************************************************)
(* Install: the commit and the new timestamps of the records are recorded. *)
(***************************************************************************)
LEMMA StateInstall ==
  ASSUME StateInv, NEW t \in Thread, Install(t)
  PROVE  StateInv'
<1> USE DEF StateInv
<1> DEFINE ts == CommitTs(txn[t].epoch, monotone)
           c == [ts |-> ts, thread |-> t, epoch |-> txn[t].epoch,
                 saw |-> txn[t].saw, wrote |-> txn[t].writes]
<1>1. /\ txn' = [txn EXCEPT ![t].pc = "log", ![t].ts = ts]
      /\ store' = [r \in Record |-> IF r \in txn[t].writes THEN ts ELSE store[r]]
      /\ commits' = Append(commits, c) /\ monotone' = monotone + 1
      /\ UNCHANGED <<built, phase, epoch, left, log, replay>> /\ txn[t].pc = "install"
  BY DEF Install
<1>2. txn[t] \in TxnType /\ monotone \in Nat /\ Len(commits) \in Nat
  BY LenProperties DEF TypeInv
<1>3. ts \in Nat /\ c \in CommitType
  BY <1>2, CommitTsType DEF TxnType, CommitType
<1> HIDE DEF ts
<1>4. commits' \in Seq(CommitType) /\ Len(commits') = Len(commits) + 1
  BY <1>1, <1>3, AppendProperties DEF TypeInv
<1>5. txn'[t] = [txn[t] EXCEPT !.pc = "log", !.ts = ts]
      /\ \A u \in Thread : u # t => txn'[u] = txn[u]
  BY <1>1 DEF TypeInv
<1>6. txn'[t] \in TxnType /\ txn'[t].pc = "log" /\ txn'[t].ts = ts /\ txn'[t].epoch = txn[t].epoch
  BY <1>2, <1>3, <1>5 DEF TxnType
<1>7. txn' \in [Thread -> TxnType]
  BY <1>1, <1>5, <1>6 DEF TypeInv
<1>8. TypeInv'
  <2>1. store' \in [Record -> Nat]
    BY <1>1, <1>3 DEF TypeInv
  <2> QED
    BY <1>1, <1>2, <1>4, <1>7, <2>1 DEF TypeInv, built, log, replay, EntryType
<1>9. Stamps' = Stamps \cup {ts}
  <2>1. ToSet(commits') = ToSet(commits) \cup {c}
    BY <1>1, <1>3, SetAppended DEF TypeInv
  <2>2. c.ts = ts
    OBVIOUS
  <2> HIDE DEF c
  <2>3. Stamps' = {d.ts : d \in ToSet(commits')}
    BY DEF Stamps
  <2> QED
    BY <2>1, <2>2, <2>3 DEF Stamps
<1>10. PcInv'
  <2>1. txn'[t].pc = "log" /\ txn'[t].ts \in Stamps' /\ txn'[t].epoch \in 1..epoch
    BY <1>1, <1>6, <1>9 DEF PcInv, PcOf
  <2>2. left[t] > 0 /\ left[t] # Closed /\ pending[t] = <<>>
    BY <1>1 DEF PcInv, PcOf, Closed, TypeInv
  <2>3. left' = left /\ pending' = pending /\ epoch' = epoch
    BY <1>1 DEF log
  <2>4. \A u \in Thread : u # t /\ txn'[u].pc \in {"log", "sync"} =>
          txn'[u].ts \in Stamps'
    BY <1>5, <1>9 DEF PcInv, PcOf
  <2> SUFFICES ASSUME NEW u \in Thread
               PROVE  PcOf(u)'
    BY DEF PcInv
  <2>5. CASE u = t
    BY <1>6, <2>1, <2>2, <2>3, <2>5 DEF PcOf
  <2>6. CASE u # t
    <3>1. txn'[u] = txn[u] /\ PcOf(u)
      BY <1>5, <2>6 DEF PcInv
    <3> QED
      BY <2>3, <2>4, <2>6, <3>1 DEF PcOf
  <2> QED
    BY <2>5, <2>6
<1>11. StampInv'
  <2>1. \A r \in Record : store'[r] \in Stamped'
    BY <1>1, <1>9 DEF StampInv, Stamped
  <2> QED
    BY <1>1, <1>9, <2>1 DEF StampInv, Stamped, log, replay, built
<1> QED
  BY <1>8, <1>10, <1>11

(***************************************************************************)
(* The steps of the logger end a transaction or write a chunk.             *)
(***************************************************************************)
LEMMA StateAppendEntry ==
  ASSUME StateInv, NEW t \in Thread, AppendEntry(t)
  PROVE  StateInv'
<1> USE DEF StateInv
<1>1. /\ txn[t].pc = "log" /\ txn' = [txn EXCEPT ![t] = NoTxn]
      /\ left' = [left EXCEPT ![t] = IF Finished THEN 0 ELSE left[t] - 1]
      /\ buffer' = [buffer EXCEPT ![t] = Append(buffer[t], txn[t].ts)]
      /\ lastEpoch' = [lastEpoch EXCEPT ![t] = txn[t].epoch]
      /\ UNCHANGED <<built, phase, epoch, monotone, store, pending, file, commits, replay>>
  BY DEF AppendEntry, LogAndRelease, TypeInv
<1>2. txn[t] \in TxnType /\ txn[t].ts \in Nat /\ buffer[t] \in Seq(Nat)
  BY DEF TypeInv, TxnType
<1>3. buffer'[t] \in Seq(Nat) /\ ToSet(buffer'[t]) = ToSet(buffer[t]) \cup {txn[t].ts}
  <2>1. buffer'[t] = Append(buffer[t], txn[t].ts)
    BY <1>1 DEF TypeInv
  <2> QED
    BY <1>2, <2>1, AppendProperties, SetAppended
<1>4. left[t] > 0 /\ txn[t].epoch \in 1..epoch /\ txn[t].ts \in Stamps
  BY <1>1 DEF PcInv, PcOf
<1>5. left' \in [Thread -> Closed..Batch] /\ left'[t] # Closed
  BY <1>1, <1>4, RecoveryConstants DEF TypeInv, Closed
<1>6. TypeInv'
  <2>1. txn' \in [Thread -> TxnType]
    BY <1>1, NoTxnType DEF TypeInv
  <2>2. buffer' \in [Thread -> Seq(Nat)]
    BY <1>1, <1>3 DEF TypeInv
  <2>3. lastEpoch' \in [Thread -> {CleanedUp} \cup 1..epoch]
    BY <1>1, <1>4 DEF TypeInv
  <2> QED
    BY <1>1, <1>5, <2>1, <2>2, <2>3 DEF TypeInv, built, replay, EntryType
<1>7. PcInv'
  <2>1. txn'[t] = NoTxn /\ NoTxn.pc = "idle"
    BY <1>1 DEF NoTxn, TypeInv
  <2>2. \A u \in Thread : u # t => txn'[u] = txn[u] /\ left'[u] = left[u]
    BY <1>1 DEF TypeInv
  <2>3. pending[t] = <<>>
    BY <1>1 DEF PcInv, PcOf
  <2> QED
    BY <1>1, <1>5, <2>1, <2>2, <2>3 DEF PcInv, PcOf, Stamps
<1>8. StampInv'
  <2>1. \A u \in Thread : u # t => buffer'[u] = buffer[u]
    BY <1>1 DEF TypeInv
  <2> QED
    BY <1>1, <1>3, <1>4, <2>1 DEF StampInv, Stamped, Stamps, replay, built
<1> QED
  BY <1>6, <1>7, <1>8

(***************************************************************************)
(* WriteChunk: the buffer becomes a pending chunk.                         *)
(***************************************************************************)
LEMMA StateWriteChunk ==
  ASSUME StateInv, NEW t \in Thread, WriteChunk(t)
  PROVE  StateInv'
<1> USE DEF StateInv
<1> DEFINE c == Chunk(lastEpoch[t], buffer[t])
<1>1. /\ txn[t].pc = "log" /\ txn' = [txn EXCEPT ![t].pc = "sync"]
      /\ pending' = [pending EXCEPT ![t] = <<c>>] /\ buffer' = [buffer EXCEPT ![t] = <<>>]
      /\ lastEpoch' = [lastEpoch EXCEPT ![t] = txn[t].epoch]
      /\ UNCHANGED <<built, phase, epoch, monotone, store, left, file, commits, replay>>
  BY DEF WriteChunk
<1>2. txn[t] \in TxnType /\ c \in ChunkType /\ c.entries = buffer[t]
  BY RecoveryConstants DEF TypeInv, Chunk, ChunkType
<1> HIDE DEF c
<1>3. left[t] > 0 /\ txn[t].epoch \in 1..epoch /\ txn[t].ts \in Stamps /\ left[t] # Closed
  BY <1>1 DEF PcInv, PcOf, TypeInv, Closed
<1>4. txn'[t] = [txn[t] EXCEPT !.pc = "sync"] /\ \A u \in Thread : u # t => txn'[u] = txn[u]
  BY <1>1 DEF TypeInv
<1>5. /\ txn'[t] \in TxnType /\ txn'[t].pc = "sync" /\ txn'[t].ts = txn[t].ts
      /\ txn'[t].epoch = txn[t].epoch
  BY <1>2, <1>4 DEF TxnType
<1>6. /\ pending'[t] = <<c>> /\ Len(<<c>>) = 1 /\ <<c>> \in Seq(ChunkType) /\ <<c>>[1] = c
      /\ \A u \in Thread : u # t => pending'[u] = pending[u] /\ buffer'[u] = buffer[u]
      /\ buffer'[t] = <<>> /\ DOMAIN <<c>> = {1}
  BY <1>1, <1>2 DEF TypeInv
<1>7. TypeInv'
  <2>1. txn' \in [Thread -> TxnType]
    BY <1>1, <1>4, <1>5 DEF TypeInv
  <2>2. lastEpoch' \in [Thread -> {CleanedUp} \cup 1..epoch]
    BY <1>1, <1>3 DEF TypeInv
  <2>3. pending' \in [Thread -> Seq(ChunkType)] /\ buffer' \in [Thread -> Seq(Nat)]
    BY <1>1, <1>6, EmptySeq DEF TypeInv
  <2> QED
    BY <1>1, <2>1, <2>2, <2>3 DEF TypeInv, built, replay, EntryType
<1>8. PcInv'
  BY <1>1, <1>3, <1>4, <1>5, <1>6 DEF PcInv, PcOf, Stamps
<1>9. StampInv'
  <2>1. ToSet(buffer'[t]) = {}
    BY <1>6 DEF ToSet
  <2>2. ToSet(pending'[t][1].entries) \subseteq Stamps
    BY <1>2, <1>6 DEF StampInv
  <2>3. \A i \in DOMAIN pending'[t] : i = 1
    BY <1>6
  <2>4. Stamps' = Stamps /\ \A r \in Record : store'[r] \in Stamped' /\ stamp'[r] \in Stamped'
    BY <1>1 DEF StampInv, Stamped, Stamps, replay
  <2> QED
    BY <1>1, <1>6, <2>1, <2>2, <2>3, <2>4 DEF StampInv, replay, built
<1> QED
  BY <1>7, <1>8, <1>9

(***************************************************************************)
(* Sync: the pending chunk goes to the file, the entry to the buffer.      *)
(***************************************************************************)
LEMMA StateSync ==
  ASSUME StateInv, NEW t \in Thread, Sync(t)
  PROVE  StateInv'
<1> USE DEF StateInv
<1>1. /\ phase = "run" /\ txn[t].pc = "sync" /\ txn' = [txn EXCEPT ![t] = NoTxn]
      /\ left' = [left EXCEPT ![t] = IF Finished THEN 0 ELSE left[t] - 1]
      /\ buffer' = [buffer EXCEPT ![t] = Append(buffer[t], txn[t].ts)]
      /\ file' = [file EXCEPT ![t] = file[t] \o pending[t]]
      /\ pending' = [pending EXCEPT ![t] = <<>>]
      /\ UNCHANGED <<built, phase, epoch, monotone, store, lastEpoch, commits, replay>>
  BY DEF Sync, LogAndRelease, TypeInv
<1>2. /\ txn[t] \in TxnType /\ txn[t].ts \in Nat /\ buffer[t] \in Seq(Nat)
      /\ file[t] \in Seq(ChunkType) /\ pending[t] \in Seq(ChunkType) /\ Len(pending[t]) = 1
  BY <1>1 DEF TypeInv, TxnType, PcInv, PcOf
<1>3. buffer'[t] \in Seq(Nat) /\ ToSet(buffer'[t]) = ToSet(buffer[t]) \cup {txn[t].ts}
  <2>1. buffer'[t] = Append(buffer[t], txn[t].ts)
    BY <1>1 DEF TypeInv
  <2>2. Append(buffer[t], txn[t].ts) \in Seq(Nat)
    BY <1>2, AppendProperties
  <2>3. ToSet(Append(buffer[t], txn[t].ts)) = ToSet(buffer[t]) \cup {txn[t].ts}
    <3>1. buffer[t] \in Seq(Nat) /\ txn[t].ts \in Nat
      BY <1>2
    <3> QED
      BY <3>1, SetAppended
  <2> QED
    BY <2>1, <2>2, <2>3
<1>4. left[t] > 0 /\ txn[t].ts \in Stamps
  BY <1>1 DEF PcInv, PcOf
<1>5. left' \in [Thread -> Closed..Batch] /\ left'[t] # Closed
  BY <1>1, <1>4, RecoveryConstants DEF TypeInv, Closed
<1>6. /\ file'[t] = file[t] \o pending[t] /\ file'[t] \in Seq(ChunkType)
      /\ \A i \in DOMAIN file'[t] : ToSet(file'[t][i].entries) \subseteq Stamps
  <2>1. file'[t] = file[t] \o pending[t]
    BY <1>1 DEF TypeInv
  <2>2. \A i \in DOMAIN file[t] : ToSet(file[t][i].entries) \subseteq Stamps
    BY <1>1 DEF StampInv
  <2> QED
    BY <1>2, <2>1, <2>2, StampsOfFiles DEF StampInv
<1>7. /\ \A u \in Thread : u # t => /\ txn'[u] = txn[u] /\ left'[u] = left[u]
                                    /\ file'[u] = file[u] /\ pending'[u] = pending[u]
                                    /\ buffer'[u] = buffer[u]
      /\ txn'[t] = NoTxn /\ pending'[t] = <<>>
  BY <1>1 DEF TypeInv
<1>8. TypeInv'
  <2>1. txn' \in [Thread -> TxnType]
    BY <1>1, NoTxnType DEF TypeInv
  <2>2. buffer' \in [Thread -> Seq(Nat)]
    BY <1>1, <1>3 DEF TypeInv
  <2>3. file' \in [Thread -> Seq(ChunkType)] /\ pending' \in [Thread -> Seq(ChunkType)]
    BY <1>1, <1>6, EmptySeq DEF TypeInv
  <2> QED
    BY <1>1, <1>5, <2>1, <2>2, <2>3 DEF TypeInv, built, replay, EntryType
<1>9. PcInv'
  <2>1. NoTxn.pc = "idle"
    BY DEF NoTxn
  <2> QED
    BY <1>1, <1>5, <1>7, <2>1 DEF PcInv, PcOf, Stamps
<1>10. StampInv'
  <2>1. DOMAIN <<>> = {}
    OBVIOUS
  <2>2. Stamps' = Stamps /\ \A r \in Record : store'[r] \in Stamped' /\ stamp'[r] \in Stamped'
    BY <1>1 DEF StampInv, Stamped, Stamps, replay
  <2> QED
    BY <1>1, <1>3, <1>4, <1>6, <1>7, <2>1, <2>2 DEF StampInv, replay, built
<1> QED
  BY <1>8, <1>9, <1>10

(***************************************************************************)
(* CleanUp: what is left in the buffer becomes the last chunk.             *)
(***************************************************************************)
LEMMA StateCleanUp ==
  ASSUME StateInv, NEW t \in Thread, CleanUp(t)
  PROVE  StateInv'
<1> USE DEF StateInv
<1> DEFINE c == Chunk(CleanedUp, buffer[t])
<1>1. /\ txn[t].pc = "idle" /\ left[t] # Closed
      /\ txn' = [txn EXCEPT ![t].pc = "cleanup"]
      /\ pending' = [pending EXCEPT ![t] = <<c>>]
      /\ UNCHANGED <<built, phase, epoch, monotone, store, left, buffer, lastEpoch,
                     file, commits, replay>>
  BY DEF CleanUp
<1>2. c \in ChunkType /\ c.entries = buffer[t]
  BY DEF TypeInv, Chunk, ChunkType
<1> HIDE DEF c
<1>3. /\ txn'[t] = [NoTxn EXCEPT !.pc = "cleanup"] /\ txn'[t].pc = "cleanup"
      /\ \A u \in Thread : u # t => txn'[u] = txn[u]
  <2>1. txn[t] = NoTxn
    BY <1>1 DEF PcInv, PcOf
  <2>2. /\ txn'[t] = [txn[t] EXCEPT !.pc = "cleanup"]
        /\ \A u \in Thread : u # t => txn'[u] = txn[u]
    BY <1>1 DEF TypeInv
  <2>3. [NoTxn EXCEPT !.pc = "cleanup"].pc = "cleanup"
    BY DEF NoTxn
  <2> QED
    BY <2>1, <2>2, <2>3
<1>4. /\ pending'[t] = <<c>> /\ Len(<<c>>) = 1 /\ <<c>> \in Seq(ChunkType) /\ <<c>>[1] = c
      /\ \A u \in Thread : u # t => pending'[u] = pending[u]
      /\ DOMAIN <<c>> = {1}
  BY <1>1, <1>2 DEF TypeInv
<1>5. TypeInv'
  <2>1. txn' \in [Thread -> TxnType]
    BY <1>1, <1>3, NoTxnType DEF TypeInv
  <2>2. pending' \in [Thread -> Seq(ChunkType)]
    BY <1>1, <1>4 DEF TypeInv
  <2> QED
    BY <1>1, <2>1, <2>2 DEF TypeInv, built, replay, EntryType
<1>6. PcInv'
  BY <1>1, <1>3, <1>4 DEF PcInv, PcOf, Stamps
<1>7. StampInv'
  <2>1. \A i \in DOMAIN pending'[t] : ToSet(pending'[t][i].entries) \subseteq Stamps
    BY <1>2, <1>4 DEF StampInv
  <2>2. Stamps' = Stamps /\ \A r \in Record : store'[r] \in Stamped' /\ stamp'[r] \in Stamped'
    BY <1>1 DEF StampInv, Stamped, Stamps, replay
  <2> QED
    BY <1>1, <1>4, <2>1, <2>2 DEF StampInv, replay, built
<1> QED
  BY <1>5, <1>6, <1>7

(***************************************************************************)
(* SyncCleanUp: the last chunk goes to the file.                           *)
(***************************************************************************)
LEMMA StateSyncCleanUp ==
  ASSUME StateInv, NEW t \in Thread, SyncCleanUp(t)
  PROVE  StateInv'
<1> USE DEF StateInv
<1>1. /\ phase = "run" /\ txn[t].pc = "cleanup" /\ txn' = [txn EXCEPT ![t] = NoTxn]
      /\ left' = [left EXCEPT ![t] = Closed]
      /\ file' = [file EXCEPT ![t] = file[t] \o pending[t]]
      /\ pending' = [pending EXCEPT ![t] = <<>>]
      /\ UNCHANGED <<built, phase, epoch, monotone, store, buffer, lastEpoch, commits, replay>>
  BY DEF SyncCleanUp, TypeInv
<1>2. /\ file[t] \in Seq(ChunkType) /\ pending[t] \in Seq(ChunkType) /\ Len(pending[t]) = 1
  BY <1>1 DEF TypeInv, PcInv, PcOf
<1>3. /\ file'[t] = file[t] \o pending[t] /\ file'[t] \in Seq(ChunkType)
      /\ \A i \in DOMAIN file'[t] : ToSet(file'[t][i].entries) \subseteq Stamps
  <2>1. file'[t] = file[t] \o pending[t]
    BY <1>1 DEF TypeInv
  <2>2. \A i \in DOMAIN file[t] : ToSet(file[t][i].entries) \subseteq Stamps
    BY <1>1 DEF StampInv
  <2> QED
    BY <1>2, <2>1, <2>2, StampsOfFiles DEF StampInv
<1>4. /\ \A u \in Thread : u # t => /\ txn'[u] = txn[u] /\ left'[u] = left[u]
                                    /\ file'[u] = file[u] /\ pending'[u] = pending[u]
      /\ txn'[t] = NoTxn /\ pending'[t] = <<>>
  BY <1>1 DEF TypeInv
<1>5. TypeInv'
  <2>1. txn' \in [Thread -> TxnType]
    BY <1>1, NoTxnType DEF TypeInv
  <2>2. left' \in [Thread -> Closed..Batch]
    BY <1>1, RecoveryConstants DEF TypeInv, Closed
  <2>3. file' \in [Thread -> Seq(ChunkType)] /\ pending' \in [Thread -> Seq(ChunkType)]
    BY <1>1, <1>3, EmptySeq DEF TypeInv
  <2> QED
    BY <1>1, <2>1, <2>2, <2>3 DEF TypeInv, built, replay, EntryType
<1>6. PcInv'
  <2>1. NoTxn.pc = "idle"
    BY DEF NoTxn
  <2> QED
    BY <1>1, <1>4, <2>1 DEF PcInv, PcOf, Stamps
<1>7. StampInv'
  <2>1. DOMAIN <<>> = {}
    OBVIOUS
  <2>2. Stamps' = Stamps /\ \A r \in Record : store'[r] \in Stamped' /\ stamp'[r] \in Stamped'
    BY <1>1 DEF StampInv, Stamped, Stamps, replay
  <2> QED
    BY <1>1, <1>3, <1>4, <2>1, <2>2 DEF StampInv, replay, built
<1> QED
  BY <1>5, <1>6, <1>7

(***************************************************************************)
(* The epoch moves on.                                                     *)
(***************************************************************************)
LEMMA StateAdvanceEpoch ==
  ASSUME StateInv, AdvanceEpoch
  PROVE  StateInv'
<1> USE DEF StateInv
<1>1. /\ epoch' = epoch + 1 /\ epoch < MaxEpoch /\ epoch \in Nat /\ MaxEpoch \in Nat
      /\ UNCHANGED <<built, phase, monotone, store, txn, left, log, commits, replay>>
  BY RecoveryConstants DEF AdvanceEpoch, TypeInv
<1>2. 1..epoch \subseteq 1..epoch' /\ epoch' \in 1..MaxEpoch
  BY <1>1 DEF TypeInv
<1>3. TypeInv'
  BY <1>1, <1>2 DEF TypeInv, built, log, replay, EntryType
<1>4. PcInv'
  BY <1>1, <1>2 DEF PcInv, PcOf, Stamps, log
<1>5. StampInv'
  BY <1>1 DEF StampInv, Stamped, Stamps, log, replay, built
<1> QED
  BY <1>3, <1>4, <1>5

(***************************************************************************)
(* The start of a replay.                                                  *)
(***************************************************************************)
FilesAfter(files) ==
  \A t \in Thread : files[t] = file[t] \/ files[t] = file[t] \o pending[t]
                      \/ ~Reloads(files[t])

(***************************************************************************)
(* What a crash leaves on the disk is what is on the file, with the chunk  *)
(* that was pending or without it, or it is torn.                          *)
(***************************************************************************)
LEMMA FilesLeft ==
  ASSUME StateInv, Crash \/ Exit
  PROVE  \E files : StartReplay(files) /\ FilesAfter(files)
                      /\ files \in [Thread -> Seq(ChunkType)]
<1> USE DEF StateInv
<1>1. CASE Exit
  <2>1. file \in [Thread -> Seq(ChunkType)] /\ FilesAfter(file)
    BY DEF TypeInv, FilesAfter
  <2> QED
    BY <1>1, <2>1 DEF Exit
<1>2. CASE Crash
  <2>1. PICK kept : /\ \A t \in Thread : kept[t] \in OnDisk(t)
                    /\ StartReplay([t \in Thread |-> file[t] \o kept[t]])
    BY <1>2 DEF Crash
  <2> DEFINE files == [t \in Thread |-> file[t] \o kept[t]]
  <2>2. ASSUME NEW t \in Thread
        PROVE  /\ file[t] \o kept[t] \in Seq(ChunkType)
               /\ \/ file[t] \o kept[t] = file[t]
                  \/ file[t] \o kept[t] = file[t] \o pending[t]
                  \/ ~Reloads(file[t] \o kept[t])
    <3>1. file[t] \in Seq(ChunkType) /\ pending[t] \in Seq(ChunkType)
          /\ (pending[t] # <<>> => Len(pending[t]) = 1)
      BY DEF TypeInv, PcInv, PcOf
    <3>2. CASE kept[t] = <<>>
      BY <3>1, <3>2, ConcatEmptySeq
    <3>3. CASE kept[t] = pending[t]
      BY <3>1, <3>3, ConcatProperties
    <3>4. CASE pending[t] # <<>> /\ kept[t] = <<Torn(pending[t][1])>>
      <4> DEFINE c == Torn(pending[t][1])
                 u == file[t] \o kept[t]
      <4>1. pending[t][1] \in ChunkType
        BY <3>1, <3>4, Extended
      <4>2. c \in ChunkType /\ c.whole = FALSE
        BY <4>1 DEF Torn, ChunkType
      <4> HIDE DEF c
      <4>3. kept[t] = <<c>>
        BY <3>4 DEF c
      <4>4. <<c>> \in Seq(ChunkType) /\ Len(<<c>>) = 1 /\ <<c>>[1] = c
        BY <4>2
      <4>5. u = Append(file[t], c)
        BY <3>1, <4>3, <4>4, Extended
      <4>6. u \in Seq(ChunkType) /\ Len(file[t]) + 1 \in DOMAIN u /\ u[Len(file[t]) + 1] = c
        BY <3>1, <4>2, <4>5, AppendProperties, LenProperties
      <4> HIDE DEF u
      <4>7. ~Reloads(u)
        BY <4>2, <4>6 DEF Reloads
      <4> QED
        BY <4>6, <4>7 DEF u
    <3> QED
      BY <2>1, <3>2, <3>3, <3>4 DEF OnDisk
  <2>3. \A t \in Thread : files[t] = file[t] \o kept[t]
    OBVIOUS
  <2>4. files \in [Thread -> Seq(ChunkType)]
    BY <2>2
  <2>5. FilesAfter(files)
    <3> HIDE DEF files
    <3> QED
      BY <2>2, <2>3 DEF FilesAfter
  <2> QED
    BY <2>1, <2>4, <2>5
<1> QED
  BY <1>1, <1>2

(***************************************************************************)
(* How many numbers there are from 1 to n.                                 *)
(***************************************************************************)
LEMMA IntervalCount ==
  ASSUME NEW n \in Nat
  PROVE  IsFiniteSet(1..n) /\ Cardinality(1..n) = n
<1>1. 1 \in Int /\ n \in Int /\ (IF 1 > n THEN 0 ELSE n - 1 + 1) = n
  OBVIOUS
<1> QED
  BY <1>1, FS_Interval

(***************************************************************************)
(* The batches of a file are no more than its chunks.                      *)
(***************************************************************************)
LEMMA BatchCountType ==
  ASSUME NEW f \in Seq(ChunkType)
  PROVE  BatchCount(f) \in Nat /\ BatchCount(f) <= Len(f)
<1>1. Len(f) \in Nat /\ DOMAIN f = 1..Len(f)
  BY LenProperties
<1>2. IsFiniteSet(1..Len(f)) /\ Cardinality(1..Len(f)) = Len(f)
  BY <1>1, IntervalCount
<1> DEFINE B == {i \in DOMAIN f : f[i].epoch # CleanedUp}
<1>3. B \in SUBSET (1..Len(f)) /\ BatchCount(f) = Cardinality(B)
  BY <1>1 DEF BatchCount
<1> HIDE DEF B
<1>4. IsFiniteSet(B) /\ Cardinality(B) <= Len(f)
  <2> DEFINE I == 1..Len(f)
  <2>1. IsFiniteSet(I) /\ Cardinality(I) = Len(f) /\ B \in SUBSET I
    BY <1>2, <1>3
  <2> HIDE DEF I
  <2>2. IsFiniteSet(B) /\ Cardinality(B) <= Cardinality(I)
    BY <2>1, FS_Subset, Zenon
  <2> QED
    BY <2>1, <2>2
<1>5. Cardinality(B) \in Nat
  BY <1>4, FS_CardinalityType
<1> QED
  BY <1>3, <1>4, <1>5

(***************************************************************************)
(* The batches of a command log are made of the entries of the files.      *)
(***************************************************************************)
LEMMA BatchEntries ==
  ASSUME NEW f \in Seq(ChunkType), NEW k \in Nat \ {0}, k <= BatchCount(f)
  PROVE  /\ BatchCount(f) \in Nat /\ k \in DOMAIN f
         /\ BatchOf(f, k) \in Seq(Nat)
         /\ ToSet(BatchOf(f, k)) =
              ToSet(f[k].entries) \cup
              (IF k = BatchCount(f) /\ k < Len(f) THEN ToSet(f[k + 1].entries)
                                                  ELSE {})
<1>1. /\ Len(f) \in Nat /\ DOMAIN f = 1..Len(f)
      /\ \A i \in 1..Len(f) : f[i] \in ChunkType /\ f[i].entries \in Seq(Nat)
  <2>1. Len(f) \in Nat /\ DOMAIN f = 1..Len(f) /\ \A i \in 1..Len(f) : f[i] \in ChunkType
    BY LenProperties, ElementOfSeq
  <2> QED
    BY <2>1 DEF ChunkType
<1>2. BatchCount(f) \in Nat /\ BatchCount(f) <= Len(f)
  BY BatchCountType
<1>3. k \in 1..Len(f)
  BY <1>1, <1>2
<1> DEFINE w == IF k = BatchCount(f) /\ k < Len(f) THEN f[k + 1].entries ELSE <<>>
<1>4. w \in Seq(Nat)
  BY <1>1, <1>3, EmptySeq
<1>5. BatchOf(f, k) = f[k].entries \o w
  BY DEF BatchOf
<1>6. ToSet(w) = IF k = BatchCount(f) /\ k < Len(f) THEN ToSet(f[k + 1].entries) ELSE {}
  BY DEF ToSet
<1> HIDE DEF w
<1>7. f[k].entries \in Seq(Nat)
  BY <1>1, <1>3
<1>8. BatchOf(f, k) \in Seq(Nat) /\ ToSet(BatchOf(f, k)) = ToSet(f[k].entries) \cup ToSet(w)
  BY <1>4, <1>5, <1>7, ConcatProperties, SetConcatenated
<1> QED
  BY <1>1, <1>2, <1>3, <1>6, <1>8

(***************************************************************************)
(* A replay starts, after a crash or an exit, on the files there are.      *)
(***************************************************************************)
LEMMA StateStart ==
  ASSUME StateInv, SawInv, NEW files \in [Thread -> Seq(ChunkType)], StartReplay(files),
         FilesAfter(files), phase = "run"
  PROVE  StateInv'
<1> USE DEF StateInv
<1>1. /\ file' = files /\ txn' = [t \in Thread |-> NoTxn]
      /\ pending' = [t \in Thread |-> <<>>]
      /\ UNCHANGED <<built, epoch, monotone, store, left, buffer, lastEpoch, commits,
                     recovered, stamp, diverged>>
  BY DEF StartReplay
<1>2. \/ phase' = "failed" /\ todo' = todo
      \/ /\ phase' = "replay" /\ todo' = Todo(files)
         /\ \A t \in Thread : Reloads(files[t])
         /\ logType = "COMMAND" => Reorders(files)
  BY DEF StartReplay
<1>3. Stamps' = Stamps /\ Stamped' = Stamped /\ EntryType' = EntryType
  BY <1>1 DEF Stamps, Stamped, EntryType, built
<1>4. Stamps \subseteq Nat
  BY CommitIsTyped DEF Stamps
<1>5. ASSUME NEW t \in Thread
      PROVE  /\ files[t] \in Seq(ChunkType)
             /\ phase' = "replay" => \A i \in DOMAIN files[t] :
                                       ToSet(files[t][i].entries) \subseteq Stamps
  <2>1. file[t] \in Seq(ChunkType) /\ pending[t] \in Seq(ChunkType)
    BY DEF TypeInv
  <2>2. phase' = "replay" => files[t] = file[t] \/ files[t] = file[t] \o pending[t]
    BY <1>2 DEF FilesAfter
  <2> QED
    BY <2>1, <2>2, StampsOfFiles DEF StampInv
<1>6. \A t \in Thread : phase' = "replay" =>
        /\ todo'[t] \in Seq(SUBSET EntryType)
        /\ \A i \in DOMAIN todo'[t] : \A x \in todo'[t][i] :
             (IF logType = "VALUE" THEN x.ts ELSE x) \in Stamps
  <2> SUFFICES ASSUME NEW t \in Thread, phase' = "replay"
               PROVE  /\ todo'[t] \in Seq(SUBSET EntryType)
                      /\ \A i \in DOMAIN todo'[t] : \A x \in todo'[t][i] :
                           (IF logType = "VALUE" THEN x.ts ELSE x) \in Stamps
    OBVIOUS
  <2>1. todo'[t] = IF logType = "VALUE" THEN ValueLog(files[t])
                   ELSE IF t = 0 THEN SerialLog(files) ELSE <<>>
    BY <1>2 DEF Todo
  <2>2. CASE logType = "VALUE"
    <3> DEFINE e == Entries(files[t])
    <3>1. e \in Seq(Nat) /\ ToSet(e) \subseteq Stamps
      BY <1>5, EntriesOf
    <3> HIDE DEF e
    <3>2. DOMAIN e = 1..Len(e) /\ Len(e) \in Nat /\ \A i \in 1..Len(e) : e[i] \in Stamps
      BY <3>1, LenProperties DEF ToSet
    <3>3. todo'[t] = [i \in 1..Len(e) |-> Elements(e[i])]
      BY <2>1, <2>2, <3>2 DEF ValueLog, e
    <3>4. \A i \in 1..Len(e) : Elements(e[i]) \in SUBSET EntryType
      <4> SUFFICES ASSUME NEW i \in 1..Len(e) PROVE Elements(e[i]) \in SUBSET EntryType
        OBVIOUS
      <4>1. e[i] \in Stamps /\ e[i] \in Nat
        BY <1>4, <3>2
      <4>2. Commit(e[i]).wrote \subseteq Record /\ Commit(e[i]) \in ToSet(commits)
        BY <4>1, CommitOf, CommitIsTyped
      <4>3. \A r \in Commit(e[i]).wrote : Content(Commit(e[i]), r) \in Stamped
        BY <4>2, ContentStamped, Zenon
      <4>4. Stamped \subseteq Nat
        BY <1>4 DEF Stamped
      <4> SUFFICES ASSUME NEW y \in Elements(e[i]) PROVE y \in EntryType
        OBVIOUS
      <4>5. PICK r \in Commit(e[i]).wrote :
              y = [ts |-> e[i], record |-> r, content |-> Content(Commit(e[i]), r)]
        BY Zenon DEF Elements
      <4>6. r \in Record /\ Content(Commit(e[i]), r) \in Nat
        BY <4>2, <4>3, <4>4
      <4>7. EntryType = [ts : Nat, record : Record, content : Nat]
        BY <2>2 DEF EntryType
      <4> HIDE DEF e
      <4> QED
        BY <4>1, <4>5, <4>6, <4>7
    <3>5. \A i \in 1..Len(e) : \A x \in Elements(e[i]) : x.ts = e[i]
      BY DEF Elements
    <3>6. [i \in 1..Len(e) |-> Elements(e[i])] \in Seq(SUBSET EntryType)
      BY <3>2, <3>4, IsASeq
    <3> QED
      BY <2>2, <3>2, <3>3, <3>5, <3>6
  <2>3. CASE logType # "VALUE" /\ t = 0
    <3>1. todo'[t] = SerialLog(files) /\ EntryType = Nat /\ Reorders(files)
      BY <1>2, <2>1, <2>3, RecoveryConstants DEF EntryType, TypeInv
    <3>2. BatchCount(files[t]) \in Nat
      BY <1>5, BatchCountType
    <3>3. ASSUME NEW k \in 1..BatchCount(files[t])
          PROVE  Merged(files, k) \subseteq Stamps
      <4> SUFFICES ASSUME NEW u \in Thread PROVE ToSet(BatchOf(files[u], k)) \subseteq Stamps
        BY DEF Merged
      <4>1. k <= BatchCount(files[u]) /\ k \in Nat \ {0}
        BY <2>3, <3>1, <3>2 DEF Reorders
      <4>2. /\ files[u] \in Seq(ChunkType) /\ DOMAIN files[u] = 1..Len(files[u])
            /\ Len(files[u]) \in Nat
        BY <1>5, LenProperties
      <4>3. /\ k \in DOMAIN files[u]
            /\ ToSet(BatchOf(files[u], k)) =
                 ToSet(files[u][k].entries) \cup
                 (IF k = BatchCount(files[u]) /\ k < Len(files[u])
                  THEN ToSet(files[u][k + 1].entries) ELSE {})
        BY <4>1, <4>2, BatchEntries
      <4>4. k < Len(files[u]) => k + 1 \in DOMAIN files[u]
        BY <4>1, <4>2
      <4> QED
        BY <1>5, <4>3, <4>4
    <3> DEFINE K == BatchCount(files[t])
    <3>4. todo'[t] = [k \in 1..K |-> Merged(files, k)]
      BY <2>3, <3>1 DEF SerialLog
    <3>5. \A k \in 1..K : Merged(files, k) \subseteq Stamps /\ Merged(files, k) \in SUBSET EntryType
      BY <1>4, <3>1, <3>3
    <3> HIDE DEF K
    <3>6. [k \in 1..K |-> Merged(files, k)] \in Seq(SUBSET EntryType)
      BY <3>2, <3>5, IsASeq DEF K
    <3> QED
      BY <2>3, <3>4, <3>5, <3>6
  <2>4. CASE logType # "VALUE" /\ t # 0
    BY <2>1, <2>4, EmptySeq
  <2> QED
    BY <2>2, <2>3, <2>4
<1>7. todo' \in [Thread -> Seq(SUBSET EntryType)]
  <2>1. todo' = [t \in Thread |-> todo'[t]]
    BY <1>2 DEF Todo, TypeInv
  <2> QED
    BY <1>2, <1>6, <2>1 DEF TypeInv
<1>8. TypeInv'
  BY <1>1, <1>2, <1>3, <1>7, NoTxnType, EmptySeq DEF TypeInv, built
<1>9. PcInv'
  BY <1>1 DEF PcInv, PcOf, NoTxn
<1>11. StampInv'
  <2>1. \A t \in Thread : \A i \in DOMAIN todo'[t] : \A x \in todo'[t][i] :
          (IF logType = "VALUE" THEN x.ts ELSE x) \in Stamps
    BY <1>2, <1>6 DEF StampInv
  <2>2. \A t \in Thread : phase' # "failed" =>
          \A i \in DOMAIN file'[t] : ToSet(file'[t][i].entries) \subseteq Stamps
    BY <1>1, <1>2, <1>5
  <2>3. \A t \in Thread : /\ ToSet(buffer'[t]) \subseteq Stamps
                          /\ DOMAIN pending'[t] = {}
    BY <1>1 DEF StampInv
  <2>4. \A r \in Record : store'[r] \in Stamped /\ stamp'[r] \in Stamped
    BY <1>1 DEF StampInv
  <2>5. logType' = logType
    BY <1>1 DEF built
  <2> QED
    BY <1>3, <2>1, <2>2, <2>3, <2>4, <2>5 DEF StampInv
<1> QED
  BY <1>8, <1>9, <1>11

(***************************************************************************)
(* The steps of a replay take entries off the batch at hand, or the batch. *)
(***************************************************************************)
LEMMA HeadOfTodo ==
  ASSUME TypeInv, NEW t \in Thread, todo[t] # <<>>
  PROVE  /\ todo[t] \in Seq(SUBSET EntryType)
         /\ DOMAIN todo[t] = 1..Len(todo[t]) /\ Len(todo[t]) \in Nat \ {0}
         /\ 1 \in DOMAIN todo[t]
         /\ Head(todo[t]) = todo[t][1] /\ todo[t][1] \subseteq EntryType
         /\ \A x : LET s == [todo[t] EXCEPT ![1] = @ \ {x}]
                   IN  /\ s \in Seq(SUBSET EntryType) /\ DOMAIN s = DOMAIN todo[t]
                       /\ s[1] = todo[t][1] \ {x}
                       /\ \A i \in DOMAIN todo[t] : i # 1 => s[i] = todo[t][i]
         /\ Tail(todo[t]) \in Seq(SUBSET EntryType)
         /\ DOMAIN Tail(todo[t]) = 1..(Len(todo[t]) - 1)
         /\ \A i \in 1..(Len(todo[t]) - 1) : Tail(todo[t])[i] = todo[t][i + 1]
<1>1. todo[t] \in Seq(SUBSET EntryType)
  BY DEF TypeInv
<1>2. /\ DOMAIN todo[t] = 1..Len(todo[t]) /\ Len(todo[t]) \in Nat \ {0}
      /\ Head(todo[t]) = todo[t][1]
  BY <1>1, LenProperties, EmptySeq
<1>3. 1 \in DOMAIN todo[t] /\ todo[t][1] \in SUBSET EntryType
  BY <1>1, <1>2, ElementOfSeq
<1>4. ASSUME NEW x
      PROVE  LET s == [todo[t] EXCEPT ![1] = @ \ {x}]
             IN  /\ s \in Seq(SUBSET EntryType) /\ DOMAIN s = DOMAIN todo[t]
                 /\ s[1] = todo[t][1] \ {x}
                 /\ \A i \in DOMAIN todo[t] : i # 1 => s[i] = todo[t][i]
  <2>1. todo[t][1] \ {x} \in SUBSET EntryType
    BY <1>3
  <2>2. [todo[t] EXCEPT ![1] = @ \ {x}] \in Seq(SUBSET EntryType)
    BY <1>1, <1>2, <1>3, <2>1, ExceptSeq
  <2> QED
    BY <1>3, <2>2
<1>5. /\ Tail(todo[t]) \in Seq(SUBSET EntryType)
      /\ Len(Tail(todo[t])) = Len(todo[t]) - 1
      /\ \A i \in 1..(Len(todo[t]) - 1) : Tail(todo[t])[i] = todo[t][i + 1]
  BY <1>1, HeadTailProperties
<1>6. DOMAIN Tail(todo[t]) = 1..(Len(todo[t]) - 1)
  BY <1>5, LenProperties
<1> QED
  BY <1>1, <1>2, <1>3, <1>4, <1>5, <1>6

(***************************************************************************)
(* The replay of one element of a value log.                               *)
(***************************************************************************)
LEMMA StateReplayValue ==
  ASSUME StateInv, NEW t \in Thread, ReplayValue(t)
  PROVE  StateInv'
<1> USE DEF StateInv
<1>1. PICK x \in Head(todo[t]) : /\ InstallNewer(x)
                                 /\ todo' = [todo EXCEPT ![t][1] = @ \ {x}]
  BY DEF ReplayValue
<1>2. /\ logType = "VALUE" /\ todo[t] # <<>>
      /\ UNCHANGED <<built, phase, epoch, monotone, store, txn, left, log, commits>>
  BY DEF ReplayValue
<1>3. /\ todo'[t] = [todo[t] EXCEPT ![1] = @ \ {x}]
      /\ \A u \in Thread : u # t => todo'[u] = todo[u]
      /\ todo' = [todo EXCEPT ![t] = todo'[t]]
  BY <1>1 DEF TypeInv
<1>4. x \in todo[t][1] /\ 1 \in DOMAIN todo[t] /\ todo[t][1] \subseteq EntryType
  BY <1>1, <1>2, HeadOfTodo
<1>5. x.ts \in Stamps /\ x.ts \in Nat /\ x.record \in Record /\ x.content \in Nat
  BY <1>2, <1>4 DEF StampInv, EntryType
<1>6. /\ recovered' \in [Record -> Nat] /\ stamp' \in [Record -> Nat]
      /\ \A r \in Record : stamp'[r] \in {stamp[r], x.ts}
  BY <1>1, <1>5 DEF InstallNewer, TypeInv
<1>7. todo'[t] \in Seq(SUBSET EntryType) /\ DOMAIN todo'[t] = DOMAIN todo[t]
      /\ \A i \in DOMAIN todo[t] : todo'[t][i] \subseteq todo[t][i]
  BY <1>2, <1>3, HeadOfTodo
<1>8. TypeInv'
  <2>1. todo' \in [Thread -> Seq(SUBSET EntryType)]
    BY <1>3, <1>7 DEF TypeInv
  <2> QED
    BY <1>2, <1>6, <2>1 DEF TypeInv, built, log, EntryType
<1>9. PcInv'
  BY <1>2 DEF PcInv, PcOf, Stamps, log
<1>10. StampInv'
  <2>1. Stamps' = Stamps /\ logType' = logType
    BY <1>2 DEF Stamps, built
  <2>2. \A u \in Thread : \A i \in DOMAIN todo'[u] : \A y \in todo'[u][i] : y.ts \in Stamps
    BY <1>2, <1>3, <1>7 DEF StampInv
  <2>3. \A r \in Record : store'[r] \in Stamped /\ stamp'[r] \in Stamped
    BY <1>2, <1>5, <1>6 DEF StampInv, Stamped
  <2> QED
    BY <1>2, <2>1, <2>2, <2>3 DEF StampInv, Stamped, log
<1> QED
  BY <1>8, <1>9, <1>10

(***************************************************************************)
(* The replay of one procedure of the command log.                         *)
(***************************************************************************)
LEMMA StateReplayCommand ==
  ASSUME StateInv, ReplayCommand
  PROVE  StateInv'
<1> USE DEF StateInv
<1> DEFINE x == MinEntry(Head(todo[0]))
           c == Commit(x)
<1>1. /\ logType = "COMMAND" /\ todo[0] # <<>> /\ Head(todo[0]) # {}
      /\ todo' = [todo EXCEPT ![0][1] = @ \ {x}]
      /\ recovered' = [r \in Record |-> IF r \in c.wrote THEN c.ts ELSE recovered[r]]
      /\ UNCHANGED <<built, phase, epoch, monotone, store, txn, left, log, commits, stamp>>
  BY DEF ReplayCommand
<1>2. 0 \in Thread
  BY RecoveryConstants DEF Thread
<1>3. 1 \in DOMAIN todo[0] /\ Head(todo[0]) = todo[0][1] /\ todo[0][1] \subseteq EntryType
  BY <1>1, <1>2, HeadOfTodo
<1>4. EntryType = Nat /\ todo[0][1] \subseteq Stamps
  BY <1>1, <1>2, <1>3 DEF EntryType, StampInv
<1>5. x \in todo[0][1]
  BY <1>1, <1>3, <1>4, LeastNatural DEF MinEntry
<1>6. /\ todo'[0] = [todo[0] EXCEPT ![1] = @ \ {x}]
      /\ \A u \in Thread : u # 0 => todo'[u] = todo[u]
      /\ todo' = [todo EXCEPT ![0] = todo'[0]]
  BY <1>1, <1>2 DEF TypeInv
<1>7. c \in ToSet(commits) /\ c.ts = x /\ x \in Stamps
  BY <1>4, <1>5, CommitOf
<1>8. c.ts \in Nat /\ c.wrote \subseteq Record /\ c.ts \in Stamps
  BY <1>7, CommitIsTyped
<1> HIDE DEF x, c
<1>9. recovered' \in [Record -> Nat]
  BY <1>1, <1>8 DEF TypeInv
<1>10. todo'[0] \in Seq(SUBSET EntryType) /\ DOMAIN todo'[0] = DOMAIN todo[0]
      /\ \A i \in DOMAIN todo[0] : todo'[0][i] \subseteq todo[0][i]
  BY <1>1, <1>2, <1>6, HeadOfTodo
<1>11. TypeInv'
  <2>1. todo' \in [Thread -> Seq(SUBSET EntryType)]
    BY <1>2, <1>6, <1>10 DEF TypeInv
  <2> QED
    BY <1>1, <1>9, <2>1 DEF TypeInv, built, log, EntryType
<1>12. PcInv'
  BY <1>1 DEF PcInv, PcOf, Stamps, log
<1>13. StampInv'
  <2>1. Stamps' = Stamps /\ logType' = logType
    BY <1>1 DEF Stamps, built
  <2>2. \A u \in Thread : \A i \in DOMAIN todo'[u] : \A y \in todo'[u][i] : y \in Stamps
    BY <1>1, <1>2, <1>6, <1>10 DEF StampInv
  <2>3. \A r \in Record : store'[r] \in Stamped /\ stamp'[r] \in Stamped
    BY <1>1, <1>8, <1>9 DEF StampInv, Stamped
  <2> QED
    BY <1>1, <2>1, <2>2, <2>3 DEF StampInv, Stamped, log
<1> QED
  BY <1>11, <1>12, <1>13

(***************************************************************************)
(* A replayer turns to its next entry or batch.                            *)
(***************************************************************************)
LEMMA StateNextBatch ==
  ASSUME StateInv, NEW t \in Thread, NextBatch(t)
  PROVE  StateInv'
<1> USE DEF StateInv
<1>1. /\ todo[t] # <<>> /\ todo' = [todo EXCEPT ![t] = Tail(todo[t])]
      /\ UNCHANGED <<built, phase, epoch, monotone, store, txn, left, log, commits,
                     recovered, stamp>>
  BY DEF NextBatch, TypeInv
<1>2. /\ todo'[t] = Tail(todo[t]) /\ \A u \in Thread : u # t => todo'[u] = todo[u]
  BY <1>1 DEF TypeInv
<1>3. /\ Tail(todo[t]) \in Seq(SUBSET EntryType)
      /\ DOMAIN Tail(todo[t]) = 1..(Len(todo[t]) - 1) /\ DOMAIN todo[t] = 1..Len(todo[t])
      /\ Len(todo[t]) \in Nat
      /\ \A i \in 1..(Len(todo[t]) - 1) : Tail(todo[t])[i] = todo[t][i + 1]
  BY <1>1, HeadOfTodo
<1>4. \A i \in DOMAIN Tail(todo[t]) : i + 1 \in DOMAIN todo[t]
  BY <1>3
<1>5. TypeInv'
  <2>1. todo' \in [Thread -> Seq(SUBSET EntryType)]
    BY <1>1, <1>3 DEF TypeInv
  <2> QED
    BY <1>1, <2>1 DEF TypeInv, built, log, EntryType
<1>6. PcInv'
  BY <1>1 DEF PcInv, PcOf, Stamps, log
<1>7. StampInv'
  <2>1. Stamps' = Stamps /\ logType' = logType
    BY <1>1 DEF Stamps, built
  <2>2. \A u \in Thread : \A i \in DOMAIN todo'[u] : \A x \in todo'[u][i] :
          (IF logType = "VALUE" THEN x.ts ELSE x) \in Stamps
    <3> SUFFICES ASSUME NEW u \in Thread, NEW i \in DOMAIN todo'[u], NEW x \in todo'[u][i]
                 PROVE  (IF logType = "VALUE" THEN x.ts ELSE x) \in Stamps
      OBVIOUS
    <3>1. CASE u # t
      BY <1>2, <3>1 DEF StampInv
    <3>2. CASE u = t
      <4>1. x \in todo[t][i + 1] /\ i + 1 \in DOMAIN todo[t]
        BY <1>2, <1>3, <1>4, <3>2
      <4> QED
        BY <4>1 DEF StampInv
    <3> QED
      BY <3>1, <3>2
  <2> QED
    BY <1>1, <2>1, <2>2 DEF StampInv, Stamped, log
<1> QED
  BY <1>5, <1>6, <1>7

(***************************************************************************)
(* Every step of the specification keeps the types and the program         *)
(* counters.                                                               *)
(***************************************************************************)
LEMMA StateNext ==
  StateInv /\ SawInv /\ [Next]_vars => StateInv'
<1> SUFFICES ASSUME StateInv, SawInv, [Next]_vars PROVE StateInv'
  OBVIOUS
<1>1. CASE \E t \in Thread : Run(t)
  BY <1>1, StateGetEpoch, StateInstall, StateAppendEntry, StateWriteChunk, StateSync,
     StateCleanUp, StateSyncCleanUp DEF Run
<1>2. CASE \E t \in Thread : ReplayValue(t) \/ NextBatch(t)
  BY <1>2, StateReplayValue, StateNextBatch
<1>3. CASE ReplayCommand \/ AdvanceEpoch
  BY <1>3, StateReplayCommand, StateAdvanceEpoch
<1>4. CASE Crash \/ Exit
  <2>1. phase = "run"
    BY <1>4 DEF Crash, Exit
  <2> QED
    BY <1>4, <2>1, FilesLeft, StateStart
<1>5. CASE UNCHANGED vars
  BY <1>5 DEF vars, log, replay, built, StateInv, TypeInv, PcInv, PcOf, StampInv,
              Stamped, Stamps, EntryType
<1> QED
  BY <1>1, <1>2, <1>3, <1>4, <1>5 DEF Next, Ended

(***************************************************************************)
(* At first nothing has been seen.                                         *)
(***************************************************************************)
LEMMA SawInit == Init => SawInv
BY DEF Init, SawInv, Saw, NoTxn, Stamped, ToSet

(***************************************************************************)
(* A transaction sees what is in the store, and all it updates.            *)
(***************************************************************************)
LEMMA SawGetEpoch ==
  ASSUME StateInv, SawInv, NEW t \in Thread, NEW p \in Procedures, GetEpoch(t, p)
  PROVE  SawInv'
<1>1. /\ UNCHANGED <<logType, commits, recovered, todo>>
      /\ txn'[t].saw = [r \in p.reads |-> store[r]] /\ txn'[t].writes = p.writes
      /\ \A u \in Thread \ {t} : txn'[u] = txn[u]
  BY DEF GetEpoch, built, replay, StateInv, TypeInv
<1>2. p.writes \subseteq p.reads /\ p.reads \subseteq Record
  BY RecoveryConstants
<1>3. Stamped' = Stamped /\ \A r \in Record : store[r] \in Stamped
  BY <1>1 DEF Stamped, Stamps, StateInv, StampInv
<1>4. Saw(txn'[t], txn'[t].writes, Stamped')
  BY <1>1, <1>2, <1>3 DEF Saw
<1> QED
  BY <1>1, <1>3, <1>4 DEF SawInv, Saw

(***************************************************************************)
(* The commit that Install adds has seen what its transaction has.         *)
(***************************************************************************)
LEMMA SawInstall ==
  ASSUME StateInv, SawInv, NEW t \in Thread, Install(t)
  PROVE  SawInv'
<1> DEFINE c == [ts |-> CommitTs(txn[t].epoch, monotone), thread |-> t,
                 epoch |-> txn[t].epoch, saw |-> txn[t].saw, wrote |-> txn[t].writes]
<1>1. /\ UNCHANGED <<logType, recovered, todo>>
      /\ commits' = Append(commits, c)
      /\ \A u \in Thread : txn'[u].saw = txn[u].saw /\ txn'[u].writes = txn[u].writes
  BY DEF Install, built, replay, StateInv, TypeInv, TxnType
<1>2. c.saw = txn[t].saw /\ c.wrote = txn[t].writes
  OBVIOUS
<1> HIDE DEF c
<1>3. \A d \in ToSet(commits') : d \in ToSet(commits) \/ d = c
  <2>1. Len(commits) \in Nat /\ DOMAIN commits = 1..Len(commits)
    BY LenProperties DEF StateInv, TypeInv
  <2>2. DOMAIN commits' = 1..(Len(commits) + 1)
    BY <1>1, <2>1
  <2>3. \A i \in 1..(Len(commits) + 1) :
          commits'[i] = IF i = Len(commits) + 1 THEN c ELSE commits[i]
    BY <1>1, <2>1
  <2> QED
    BY <2>1, <2>2, <2>3 DEF ToSet
<1>4. ToSet(commits) \subseteq ToSet(commits')
  <2>1. Len(commits) \in Nat /\ DOMAIN commits = 1..Len(commits)
    BY LenProperties DEF StateInv, TypeInv
  <2>2. DOMAIN commits' = 1..(Len(commits) + 1)
        /\ \A i \in 1..Len(commits) : commits'[i] = commits[i]
    BY <1>1, <2>1
  <2> QED
    BY <2>1, <2>2 DEF ToSet
<1>5. Stamped \subseteq Stamped'
  BY <1>4 DEF Stamped, Stamps
<1>6. \A u \in Thread : Saw(txn'[u], txn'[u].writes, Stamped')
  BY <1>1, <1>5 DEF Saw, SawInv
<1>7. \A d \in ToSet(commits') : Saw(d, d.wrote, Stamped')
  <2>1. \A d \in ToSet(commits) : Saw(d, d.wrote, Stamped')
    BY <1>5 DEF Saw, SawInv
  <2>2. Saw(c, c.wrote, Stamped')
    BY <1>2, <1>5 DEF Saw, SawInv
  <2> QED
    BY <1>3, <2>1, <2>2
<1> QED
  BY <1>1, <1>5, <1>6, <1>7 DEF SawInv

(***************************************************************************)
(* The replay starts with the contents that have been logged.              *)
(***************************************************************************)
LEMMA SawStart ==
  ASSUME StateInv, SawInv, StateInv', Crash \/ Exit
  PROVE  SawInv'
<1>1. PICK files : StartReplay(files)
  BY DEF Crash, Exit
<1>2. /\ UNCHANGED <<logType, image, commits, recovered>>
      /\ \A t \in Thread : txn'[t] = NoTxn
      /\ todo' = todo \/ todo' = Todo(files)
  BY <1>1 DEF StartReplay, built
<1>3. Stamped' = Stamped
  BY <1>2 DEF Stamped, Stamps
<1>4. \A t \in Thread : Saw(txn'[t], txn'[t].writes, Stamped')
  BY <1>2 DEF Saw, NoTxn
<1>5. ASSUME logType = "VALUE", NEW t \in Thread, NEW i \in DOMAIN todo'[t], NEW x \in todo'[t][i]
      PROVE  x.content \in Stamped
  <2>1. CASE todo' = todo
    BY <1>5, <2>1 DEF SawInv
  <2>2. CASE todo' = Todo(files)
    <3> DEFINE y == Entries(files[t])[i]
    <3>1. todo'[t] = [k \in DOMAIN Entries(files[t]) |-> Elements(Entries(files[t])[k])]
      BY <1>5, <2>2 DEF Todo, ValueLog
    <3>2. x \in Elements(y)
      BY <1>5, <3>1
    <3> HIDE DEF y
    <3>3. PICK r \in Commit(y).wrote :
            x = [ts |-> y, record |-> r, content |-> Content(Commit(y), r)]
      BY <3>2 DEF Elements
    <3>4. y \in Stamps
      <4>1. x.ts \in Stamps'
        BY <1>2, <1>5 DEF StateInv, StampInv
      <4> QED
        BY <1>2, <3>3, <4>1 DEF Stamps
    <3> QED
      BY <3>3, <3>4, CommitOf, ContentStamped
  <2> QED
    BY <1>2, <2>1, <2>2
<1> QED
  BY <1>2, <1>3, <1>4, <1>5 DEF SawInv, Saw

(***************************************************************************)
(* Values that are replayed are those that were logged.                    *)
(***************************************************************************)
LEMMA SawReplay ==
  ASSUME StateInv, SawInv, NEW t \in Thread, ReplayValue(t) \/ NextBatch(t)
  PROVE  SawInv'
<1>1. UNCHANGED <<logType, commits, txn>> /\ todo[t] # <<>>
  BY DEF ReplayValue, NextBatch, built
<1>2. Stamped' = Stamped
  BY <1>1 DEF Stamped, Stamps
<1>3. \A u \in Thread : \A i \in DOMAIN todo'[u] : \A x \in todo'[u][i] :
        \E j \in DOMAIN todo[u] : x \in todo[u][j]
  <2>1. CASE ReplayValue(t)
    <3>1. PICK x : todo' = [todo EXCEPT ![t][1] = @ \ {x}]
      BY <2>1 DEF ReplayValue
    <3>2. /\ todo'[t] = [todo[t] EXCEPT ![1] = @ \ {x}]
          /\ \A u \in Thread : u # t => todo'[u] = todo[u]
      BY <3>1 DEF StateInv, TypeInv
    <3>3. DOMAIN todo'[t] = DOMAIN todo[t]
          /\ \A i \in DOMAIN todo[t] : todo'[t][i] \subseteq todo[t][i]
      BY <1>1, <3>2, HeadOfTodo DEF StateInv
    <3> QED
      BY <3>2, <3>3
  <2>2. CASE NextBatch(t)
    <3>1. todo'[t] = Tail(todo[t]) /\ \A u \in Thread : u # t => todo'[u] = todo[u]
      BY <2>2 DEF NextBatch, StateInv, TypeInv
    <3>2. /\ DOMAIN Tail(todo[t]) = 1..(Len(todo[t]) - 1) /\ DOMAIN todo[t] = 1..Len(todo[t])
          /\ Len(todo[t]) \in Nat
          /\ \A i \in 1..(Len(todo[t]) - 1) : Tail(todo[t])[i] = todo[t][i + 1]
      BY <1>1, HeadOfTodo DEF StateInv
    <3>3. \A i \in DOMAIN Tail(todo[t]) : i + 1 \in DOMAIN todo[t]
      BY <3>2
    <3> QED
      BY <3>1, <3>2, <3>3
  <2> QED
    BY <2>1, <2>2
<1>4. \A r \in Record : recovered'[r] \in Stamped
  <2>1. CASE ReplayValue(t)
    <3>1. PICK x \in Head(todo[t]) : InstallNewer(x)
      BY <2>1 DEF ReplayValue
    <3>2. x \in todo[t][1] /\ 1 \in DOMAIN todo[t]
      BY <1>1, <3>1, HeadOfTodo DEF StateInv
    <3>3. x.content \in Stamped
      BY <2>1, <3>2 DEF SawInv, ReplayValue
    <3> QED
      BY <3>1, <3>3 DEF InstallNewer, SawInv, StateInv, TypeInv
  <2>2. CASE NextBatch(t)
    BY <2>2 DEF NextBatch, SawInv
  <2> QED
    BY <2>1, <2>2
<1>5. logType = "VALUE" => \A u \in Thread : \A i \in DOMAIN todo'[u] :
                            \A x \in todo'[u][i] : x.content \in Stamped
  BY <1>3 DEF SawInv
<1> QED
  BY <1>1, <1>2, <1>4, <1>5 DEF SawInv, Saw

(***************************************************************************)
(* Every step keeps to contents that somebody has written.                 *)
(***************************************************************************)
LEMMA SawNext ==
  StateInv /\ SawInv /\ [Next]_vars => SawInv'
<1> SUFFICES ASSUME StateInv, SawInv, [Next]_vars PROVE SawInv'
  OBVIOUS
<1>1. CASE \E t \in Thread, p \in Procedures : GetEpoch(t, p)
  BY <1>1, SawGetEpoch
<1>2. CASE \E t \in Thread : Install(t)
  BY <1>2, SawInstall
<1>3. CASE \/ \E t \in Thread : AppendEntry(t) \/ WriteChunk(t) \/ Sync(t) \/ CleanUp(t)
                                \/ SyncCleanUp(t)
           \/ AdvanceEpoch \/ UNCHANGED vars
  <2>1. UNCHANGED <<logType, commits, recovered, todo>>
    BY <1>3 DEF AppendEntry, WriteChunk, Sync, CleanUp, SyncCleanUp, AdvanceEpoch, vars, replay,
                built
  <2>2. \A u \in Thread : txn'[u] = NoTxn
                          \/ (txn'[u].saw = txn[u].saw /\ txn'[u].writes = txn[u].writes)
    <3>1. DOMAIN txn = Thread /\ \A u \in Thread : txn[u] \in TxnType
      BY DEF StateInv, TypeInv
    <3>2. CASE \E t \in Thread : AppendEntry(t) \/ Sync(t) \/ SyncCleanUp(t)
      <4>1. PICK t \in Thread : txn' = [txn EXCEPT ![t] = NoTxn]
        BY <3>2 DEF AppendEntry, Sync, SyncCleanUp, LogAndRelease
      <4> QED
        BY <3>1, <4>1
    <3>3. CASE \E t \in Thread : WriteChunk(t) \/ CleanUp(t)
      <4>1. PICK t \in Thread : \E pc : txn' = [txn EXCEPT ![t].pc = pc]
        BY <3>3 DEF WriteChunk, CleanUp
      <4> QED
        BY <3>1, <4>1 DEF TxnType
    <3>4. CASE AdvanceEpoch \/ UNCHANGED vars
      BY <3>4 DEF AdvanceEpoch, vars
    <3> QED
      BY <1>3, <3>2, <3>3, <3>4
  <2>3. Stamped' = Stamped
    BY <2>1 DEF Stamped, Stamps
  <2>4. \A u \in Thread : Saw(txn'[u], txn'[u].writes, Stamped')
    BY <2>2, <2>3 DEF Saw, SawInv, NoTxn
  <2> QED
    BY <2>1, <2>3, <2>4 DEF SawInv, Saw
<1>4. CASE Crash \/ Exit
  BY <1>4, StateNext, SawStart
<1>5. CASE \E t \in Thread : ReplayValue(t) \/ NextBatch(t)
  BY <1>5, SawReplay
<1>6. CASE ReplayCommand
  <2>1. /\ UNCHANGED <<commits, txn>> /\ logType' = "COMMAND"
        /\ \A r \in Record : recovered'[r] = recovered[r]
             \/ recovered'[r] = Commit(MinEntry(Head(todo[0]))).ts
    BY <1>6 DEF ReplayCommand, built
  <2>2. Stamped' = Stamped
    BY <2>1 DEF Stamped, Stamps
  <2>3. Commit(MinEntry(Head(todo[0]))).ts \in Stamped
    <3>1. 0 \in Thread /\ todo[0] # <<>> /\ Head(todo[0]) # {} /\ logType = "COMMAND"
      BY <1>6, RecoveryConstants DEF Thread, ReplayCommand
    <3>2. Head(todo[0]) \subseteq Nat /\ Head(todo[0]) \subseteq Stamps
      BY <3>1, HeadOfTodo DEF StateInv, StampInv, EntryType
    <3>3. MinEntry(Head(todo[0])) \in Stamps
      BY <3>1, <3>2, LeastNatural DEF MinEntry
    <3> QED
      BY <3>3, CommitOf DEF Stamped
  <2> QED
    BY <2>1, <2>2, <2>3 DEF SawInv, Saw
<1> QED
  BY <1>1, <1>2, <1>3, <1>4, <1>5, <1>6 DEF Next, Run, Ended

(***************************************************************************)
(* The types of Recovery, for every number of threads, records, procedures *)
(* and epochs.  What a store or a log holds is the timestamp of a commit.  *)
(***************************************************************************)
THEOREM TypeCorrect == Spec => []TypeOK
<1>1. StateInv /\ SawInv => TypeOK
  <2> SUFFICES ASSUME StateInv, SawInv PROVE TypeOK
    OBVIOUS
  <2>1. Stamps = {commits[i].ts : i \in DOMAIN commits}
    BY DEF Stamps, ToSet
  <2>2. \A t \in Thread : Len(pending[t]) <= 1
    <3>1. Len(<<>>) = 0
      OBVIOUS
    <3>2. \A t \in Thread : pending[t] = <<>> \/ Len(pending[t]) = 1
      BY DEF StateInv, PcInv, PcOf
    <3>3. \A n : n \in {0, 1} => n <= 1
      OBVIOUS
    <3>4. \A t \in Thread : Len(pending[t]) \in {0, 1}
      BY <3>1, <3>2, Zenon
    <3> QED
      BY <3>3, <3>4, Zenon
  <2> QED
    BY <2>1, <2>2 DEF StateInv, TypeInv, StampInv, SawInv, Stamped, TypeOK
<1> QED
  BY <1>1, StateInit, SawInit, StateNext, SawNext, PTL DEF Spec

-----------------------------------------------------------------------------
(***************************************************************************)
(* The counter has not run into the bits of the epoch.                     *)
(***************************************************************************)
NoWrap == monotone <= TsSpan

(***************************************************************************)
(* What is locked is exclusive.  While a transaction installs, whatever it *)
(* comes after has an epoch that is no larger.                             *)
(***************************************************************************)
Conflicts(c, t) ==
  \/ c.thread = t
  \/ c.wrote \cap txn[t].writes # {}
  \/ ReadLocks /\ (DOMAIN c.saw \cap txn[t].writes # {}
                     \/ c.wrote \cap DOMAIN txn[t].saw # {})

Exclusive(t, u) ==
  /\ txn[t].writes \cap txn[u].writes = {}
  /\ ReadLocks => DOMAIN txn[t].saw \cap txn[u].writes = {}

Follows(t) ==
  /\ \A c \in ToSet(commits) : Conflicts(c, t) => c.epoch <= txn[t].epoch
  /\ ReadLocks => \A r \in DOMAIN txn[t].saw : txn[t].saw[r] = store[r]

IsNewest(t) ==
  /\ \E c \in ToSet(commits) : /\ c.ts = txn[t].ts /\ c.thread = t
                               /\ c.epoch = txn[t].epoch
  /\ \A c \in ToSet(commits) : c.thread = t => c.ts <= txn[t].ts

LockInv ==
  \A t \in Thread :
    /\ txn[t].writes \subseteq DOMAIN txn[t].saw
    /\ \A u \in Thread \ {t} : Exclusive(t, u)
    /\ txn[t].pc = "install" => Follows(t)
    /\ txn[t].pc \in {"log", "sync"} => IsNewest(t)

(***************************************************************************)
(* The timestamps order the updates of a record, and with read locks the   *)
(* reads among them.                                                       *)
(***************************************************************************)
IsLast(x, C) ==
  \/ C = {} /\ x = 0
  \/ \E c \in C : c.ts = x /\ \A d \in C : d.ts <= x

HistOf ==
  \A i \in DOMAIN commits : /\ commits[i].ts = CommitTs(commits[i].epoch, i)
                            /\ commits[i].epoch \in 1..epoch

HistInv ==
  /\ HistOf
  /\ \A r \in Record : IsLast(store[r], Updates(r))
  /\ ReadLocks => \A c \in ToSet(commits) : \A r \in DOMAIN c.saw :
       IsLast(c.saw[r], {d \in Updates(r) : d.ts < c.ts})

(***************************************************************************)
(* The chunks of a thread are the commits of its epochs, in order.         *)
(***************************************************************************)
ByEpoch(t, e) ==
  {c.ts : c \in {d \in ToSet(commits) : d.thread = t /\ d.epoch = e}}

ChunkEpoch(t, chunk) ==
  IF chunk.epoch = CleanedUp THEN lastEpoch[t] ELSE chunk.epoch

ChunksOf(t, f) ==
  \A i \in DOMAIN f :
    /\ f[i].epoch = CleanedUp => i = Len(f)
    /\ f[i].epoch # CleanedUp =>
         /\ f[i].epoch < lastEpoch[t]
         /\ \A j \in DOMAIN f : j < i => f[j].epoch < f[i].epoch
    /\ ToSet(f[i].entries) = ByEpoch(t, ChunkEpoch(t, f[i]))

Covered(c, f) ==
  c.epoch = lastEpoch[c.thread] \/ \E i \in DOMAIN f : f[i].epoch = c.epoch

Chunks(t) == file[t] \o pending[t]

Logged(t) == Entries(Chunks(t)) \o Unwritten(t)

Ending(t) == txn[t].pc = "cleanup" \/ left[t] = Closed

LogOf(t) ==
  /\ txn[t].pc \in {"install", "log"} => lastEpoch[t] <= txn[t].epoch
  /\ txn[t].pc = "sync" => lastEpoch[t] = txn[t].epoch
  /\ ToSet(buffer[t]) = ByEpoch(t, lastEpoch[t]) \ {txn[t].ts}
  /\ ChunksOf(t, Chunks(t))
  /\ \A i \in DOMAIN Chunks(t) : Chunks(t)[i].whole
  /\ Ending(t) <=> \E i \in DOMAIN Chunks(t) : Chunks(t)[i].epoch = CleanedUp
  /\ \A c \in ToSet(commits) : c.thread = t /\ c.ts # txn[t].ts =>
       Covered(c, Chunks(t))
  /\ Ascends(Logged(t))

LogInv == phase = "run" => \A t \in Thread : LogOf(t)

Untouched ==
  /\ phase # "replay" => diverged = FALSE
  /\ phase = "run" => /\ exited = FALSE
                      /\ \A r \in Record : stamp[r] = 0 /\ recovered[r] = 0
                      /\ \A t \in Thread : todo[t] = <<>>

(***************************************************************************)
(* The files that are replayed: to each chunk, all commits of its thread   *)
(* up to its epoch are on the file; after an orderly end all there are.    *)
(***************************************************************************)
Gapless(t, f) ==
  \A c \in ToSet(commits) : \A i \in DOMAIN f :
    c.thread = t /\ c.epoch <= f[i].epoch => \E j \in DOMAIN f : f[j].epoch = c.epoch

FileOf(t) ==
  /\ ChunksOf(t, file[t]) /\ Gapless(t, file[t])
  /\ exited => /\ \E i \in DOMAIN file[t] : file[t][i].epoch = CleanedUp
               /\ \A c \in ToSet(commits) : c.thread = t => Covered(c, file[t])

FileInv == phase = "replay" => \A t \in Thread : FileOf(t)

(***************************************************************************)
(* The value log: an update on the disk is recovered, overtaken, or still  *)
(* to be done; and what is recovered is what was logged.                   *)
(***************************************************************************)
Element(c, r) == [ts |-> c.ts, record |-> r, content |-> Content(c, r)]

ValueInv ==
  phase = "replay" /\ logType = "VALUE" =>
    /\ \A t \in Thread : \A i \in DOMAIN todo[t] : \A x \in todo[t][i] :
         \E c \in Updates(x.record) : x = Element(c, x.record) /\ OnFile(c)
    /\ \A r \in Record :
         /\ \/ stamp[r] = 0 /\ recovered[r] = 0
            \/ \E c \in Updates(r) : /\ c.ts = stamp[r] /\ OnFile(c)
                                   /\ recovered[r] = Content(c, r)
         /\ \A c \in Updates(r) : OnFile(c) =>
              \/ c.ts <= stamp[r]
              \/ \E i \in DOMAIN todo[c.thread] : Element(c, r) \in todo[c.thread][i]

(***************************************************************************)
(* The command log: what has been replayed is the beginning of the serial  *)
(* order, and the store is the one it has left.                            *)
(***************************************************************************)
Replayed ==
  {c \in ToSet(commits) : EndedTogether \/ c.epoch \in ReplayedEpochs}

Rest == UNION {todo[0][i] : i \in DOMAIN todo[0]}

CommandInv ==
  phase = "replay" /\ logType = "COMMAND" /\ (NoCleanUp \/ EndedTogether) =>
    /\ Rest \subseteq {c.ts : c \in Replayed}
    /\ \A i, j \in DOMAIN todo[0] : i < j =>
         \A x \in todo[0][i], y \in todo[0][j] : x < y
    /\ \A c \in Replayed : c.ts \notin Rest => \A y \in Rest : c.ts < y
    /\ \A c \in Replayed, d \in ToSet(commits) : d.ts < c.ts => d \in Replayed
    /\ \A r \in Record :
         IsLast(recovered[r], {c \in Updates(r) : c \in Replayed /\ c.ts \notin Rest})
    /\ ReadLocks => diverged = FALSE

RunInv == HistInv /\ LockInv /\ LogInv /\ Untouched

ReplayInv == FileInv /\ ValueInv /\ CommandInv

-----------------------------------------------------------------------------
(***************************************************************************)
(* As long as the counter has not wrapped, a timestamp stands for one      *)
(* commit, and the timestamps are in the order of the epochs.              *)
(***************************************************************************)
LEMMA CommitOrder ==
  ASSUME StateInv, HistInv, NoWrap, NEW c \in ToSet(commits), NEW d \in ToSet(commits)
  PROVE  /\ c.ts \in Nat /\ c.ts > 0 /\ c.epoch \in Nat /\ c.epoch \in 1..epoch
         /\ c.ts = d.ts => c = d
         /\ c.epoch < d.epoch => c.ts < d.ts
<1>1. PICK i \in DOMAIN commits : c = commits[i]
  BY DEF ToSet
<1>2. PICK j \in DOMAIN commits : d = commits[j]
  BY DEF ToSet
<1>3. /\ Len(commits) \in Nat /\ DOMAIN commits = 1..Len(commits)
      /\ monotone = Len(commits) + 1 /\ TsSpan \in Nat /\ epoch \in Nat
  BY LenProperties, RecoveryConstants DEF StateInv, TypeInv
<1>4. i \in Nat /\ j \in Nat /\ i > 0 /\ i < TsSpan /\ j < TsSpan
  BY <1>3 DEF NoWrap
<1>5. /\ c.epoch \in 1..epoch /\ d.epoch \in 1..epoch
      /\ c.ts = CommitTs(c.epoch, i) /\ d.ts = CommitTs(d.epoch, j)
  BY <1>1, <1>2 DEF HistInv, HistOf
<1>6. c.epoch \in Nat /\ d.epoch \in Nat
  BY <1>3, <1>5
<1>7. /\ c.ts \in Nat /\ d.ts \in Nat /\ c.ts >= i
      /\ c.epoch < d.epoch => c.ts < d.ts
      /\ d.epoch < c.epoch => d.ts < c.ts
      /\ c.epoch = d.epoch /\ i < j => c.ts < d.ts
      /\ c.epoch = d.epoch /\ j < i => d.ts < c.ts
  <2>1. \A k, m \in Nat : k < TsSpan /\ m < TsSpan => \A y, z \in Nat :
          /\ CommitTs(y, k) \in Nat /\ CommitTs(y, k) >= k
          /\ y < z => CommitTs(y, k) < CommitTs(z, m)
          /\ y = z /\ k < m => CommitTs(y, k) < CommitTs(z, m)
    BY CommitTsOrder
  <2> DEFINE x == CommitTs(c.epoch, i)
             z == CommitTs(d.epoch, j)
  <2>2. /\ x \in Nat /\ x >= i
        /\ c.epoch < d.epoch => x < z
        /\ c.epoch = d.epoch /\ i < j => x < z
    BY <1>4, <1>6, <2>1
  <2>3. /\ z \in Nat /\ z >= j
        /\ d.epoch < c.epoch => z < x
        /\ d.epoch = c.epoch /\ j < i => z < x
    BY <1>4, <1>6, <2>1
  <2> HIDE DEF x, z
  <2>4. c.ts = x /\ d.ts = z
    BY <1>5 DEF x, z
  <2> QED
    BY <2>2, <2>3, <2>4
<1>8. c.ts = d.ts => i = j
  BY <1>4, <1>6, <1>7
<1> QED
  BY <1>1, <1>2, <1>4, <1>5, <1>6, <1>7, <1>8

(***************************************************************************)
(* The commit that Install adds.                                           *)
(***************************************************************************)
IsNew(c, t) ==
  /\ ToSet(commits)' = ToSet(commits) \cup {c}
  /\ c.thread = t /\ c.epoch = txn[t].epoch /\ c.saw = txn[t].saw
  /\ c.wrote = txn[t].writes
  /\ c.ts \in Nat /\ c.ts > 0
  /\ txn'[t] = [txn[t] EXCEPT !.pc = "log", !.ts = c.ts]
  /\ \A u \in Thread : u # t => txn'[u] = txn[u]
  /\ \A r \in Record : store'[r] = IF r \in c.wrote THEN c.ts ELSE store[r]
  /\ \A d \in ToSet(commits) :
       /\ d.ts # c.ts
       /\ d.epoch <= c.epoch => d.ts < c.ts
       /\ c.epoch < d.epoch => c.ts < d.ts

(***************************************************************************)
(* Install appends one commit, with a timestamp of its own.                *)
(***************************************************************************)
LEMMA Installed ==
  ASSUME StateInv, HistInv, NoWrap', NEW t \in Thread, Install(t)
  PROVE  (\E c : IsNew(c, t)) /\ HistOf'
<1> USE DEF StateInv
<1> DEFINE ts == CommitTs(txn[t].epoch, monotone)
           c == [ts |-> ts, thread |-> t, epoch |-> txn[t].epoch,
                 saw |-> txn[t].saw, wrote |-> txn[t].writes]
<1>1. /\ txn[t].pc = "install" /\ txn' = [txn EXCEPT ![t].pc = "log", ![t].ts = ts]
      /\ store' = [r \in Record |-> IF r \in txn[t].writes THEN ts ELSE store[r]]
      /\ commits' = Append(commits, c) /\ monotone' = monotone + 1 /\ epoch' = epoch
  BY DEF Install
<1>2. /\ txn[t] \in TxnType /\ txn[t].epoch \in 1..epoch /\ epoch \in Nat
      /\ Len(commits) \in Nat /\ DOMAIN commits = 1..Len(commits)
      /\ monotone = Len(commits) + 1 /\ TsSpan \in Nat
  BY <1>1, LenProperties, RecoveryConstants DEF TypeInv, PcInv, PcOf
<1>3. txn[t].epoch \in Nat /\ monotone \in Nat /\ monotone > 0 /\ monotone < TsSpan
  BY <1>1, <1>2 DEF NoWrap
<1>4. ts \in Nat /\ ts > 0
  BY <1>3, CommitTsOrder
<1>5. c \in CommitType
  BY <1>2, <1>3, <1>4 DEF TxnType, CommitType
<1>6. ToSet(commits') = ToSet(commits) \cup {c}
  BY <1>1, <1>5, SetAppended DEF TypeInv
<1>7. /\ c.ts = ts /\ c.thread = t /\ c.epoch = txn[t].epoch /\ c.saw = txn[t].saw
      /\ c.wrote = txn[t].writes
  OBVIOUS
<1>8. /\ txn'[t] = [txn[t] EXCEPT !.pc = "log", !.ts = ts]
      /\ \A u \in Thread : u # t => txn'[u] = txn[u]
  BY <1>1 DEF TypeInv
<1> HIDE DEF c
<1>9. ASSUME NEW d \in ToSet(commits)
      PROVE  /\ d.ts # ts /\ (d.epoch <= txn[t].epoch => d.ts < ts)
             /\ (txn[t].epoch < d.epoch => ts < d.ts)
  <2>1. PICK i \in DOMAIN commits : d = commits[i]
    BY DEF ToSet
  <2>2. /\ d.ts = CommitTs(d.epoch, i) /\ d.epoch \in 1..epoch
        /\ i \in Nat /\ i < monotone
    BY <1>2, <2>1 DEF HistInv, HistOf
  <2>3. d.epoch \in Nat /\ i < TsSpan
    BY <1>2, <1>3, <2>2
  <2>4. /\ d.ts \in Nat
        /\ d.epoch < txn[t].epoch => d.ts < ts
        /\ txn[t].epoch < d.epoch => ts < d.ts
        /\ d.epoch = txn[t].epoch => d.ts < ts
    <3>1. \A k, m \in Nat : k < TsSpan /\ m < TsSpan => \A y, z \in Nat :
            /\ CommitTs(y, k) \in Nat
            /\ y < z => CommitTs(y, k) < CommitTs(z, m)
            /\ y = z /\ k < m => CommitTs(y, k) < CommitTs(z, m)
      BY CommitTsOrder
    <3> DEFINE x == CommitTs(d.epoch, i)
    <3>2. /\ x \in Nat
          /\ d.epoch < txn[t].epoch => x < ts
          /\ d.epoch = txn[t].epoch => x < ts
      BY <1>3, <2>2, <2>3, <3>1
    <3>3. txn[t].epoch < d.epoch => ts < x
      BY <1>3, <2>2, <2>3, <3>1
    <3> QED
      BY <2>2, <3>2, <3>3
  <2> QED
    BY <1>3, <1>4, <2>3, <2>4
<1> HIDE DEF ts
<1>10. IsNew(c, t)
  <2>1. \A r \in Record : store'[r] = IF r \in txn[t].writes THEN ts ELSE store[r]
    BY <1>1
  <2> QED
    BY <1>4, <1>6, <1>7, <1>8, <1>9, <2>1 DEF IsNew
<1>11. HistOf'
  <2>1. /\ DOMAIN commits' = 1..(Len(commits) + 1) /\ commits'[Len(commits) + 1] = c
        /\ \A i \in 1..Len(commits) : commits'[i] = commits[i]
    <3>1. commits \in Seq(CommitType)
      BY DEF TypeInv
    <3> QED
      BY <1>1, <1>2, <1>5, <3>1, AppendProperties, LenProperties
  <2> SUFFICES ASSUME NEW i \in DOMAIN commits'
               PROVE  /\ commits'[i].ts = CommitTs(commits'[i].epoch, i)
                      /\ commits'[i].epoch \in 1..epoch'
    BY DEF HistOf, CommitTs
  <2>2. CASE i \in 1..Len(commits)
    BY <1>1, <1>2, <2>1, <2>2 DEF HistInv, HistOf
  <2>3. CASE i = Len(commits) + 1
    BY <1>1, <1>2, <1>7, <2>1, <2>3 DEF ts
  <2> QED
    BY <1>2, <2>1, <2>2, <2>3
<1> QED
  BY <1>10, <1>11

(***************************************************************************)
(* The history: a step that commits nothing leaves it as it is...          *)
(***************************************************************************)
LEMMA HistKept ==
  ASSUME HistInv, UNCHANGED <<commits, store>>, epoch \in Nat, epoch' \in Nat,
         epoch' >= epoch
  PROVE  HistInv'
<1>1. HistOf'
  BY DEF HistInv, HistOf, CommitTs
<1>2. \A r \in Record : Updates(r)' = Updates(r)
  BY DEF Updates
<1>3. \A r \in Record : IsLast(store[r], Updates(r))'
  BY <1>2 DEF HistInv, IsLast
<1>4. ReadLocks => \A c \in ToSet(commits) : \A r \in DOMAIN c.saw :
        IsLast(c.saw[r], {d \in Updates(r)' : d.ts < c.ts})
  <2>1. \A r : Updates(r)' = Updates(r)
    BY DEF Updates
  <2> QED
    BY <2>1 DEF HistInv
<1> QED
  BY <1>1, <1>3, <1>4 DEF HistInv, IsLast

(***************************************************************************)
(* ... and a new commit is the last of those it conflicts with: it is in   *)
(* their epoch or in a later one.                                          *)
(***************************************************************************)
LEMMA NewIsLast ==
  ASSUME NEW t \in Thread, NEW c, IsNew(c, t), Follows(t), NEW d \in ToSet(commits),
         \/ d.thread = t \/ d.wrote \cap c.wrote # {}
         \/ ReadLocks /\ (DOMAIN d.saw \cap c.wrote # {} \/ d.wrote \cap DOMAIN c.saw # {})
  PROVE  d.ts < c.ts
BY DEF IsNew, Follows, Conflicts

(***************************************************************************)
(* The history keeps its order when a commit is appended: its timestamp    *)
(* exceeds those of the records it has locked, and of the commits of its   *)
(* thread.                                                                 *)
(***************************************************************************)
LEMMA HistInstall ==
  ASSUME StateInv, HistInv, LockInv, NoWrap', NEW t \in Thread, Install(t)
  PROVE  HistInv'
<1>1. PICK c : IsNew(c, t)
  BY Installed
<1>2. HistOf'
  BY Installed
<1>3. Follows(t)
  BY DEF LockInv, Install
<1>4. txn[t].writes \subseteq DOMAIN txn[t].saw
  BY DEF LockInv
<1>5. c.wrote \subseteq DOMAIN c.saw /\ c.ts \in Nat
  BY <1>1, <1>4 DEF IsNew
<1>6. \A r : Updates(r)' = IF r \in c.wrote THEN Updates(r) \cup {c} ELSE Updates(r)
  BY <1>1 DEF Updates, IsNew
<1>7. \A r \in Record : \A d \in Updates(r) : r \in c.wrote => d.ts < c.ts
  BY <1>1, <1>3, NewIsLast DEF Updates
<1>8. ASSUME NEW r \in Record PROVE IsLast(store'[r], Updates(r)')
  <2>1. IsLast(store[r], Updates(r))
    BY DEF HistInv
  <2>2. store'[r] = IF r \in c.wrote THEN c.ts ELSE store[r]
    BY <1>1 DEF IsNew
  <2>3. CASE r \in c.wrote
    <3>1. \A d \in Updates(r)' : d.ts <= c.ts
      <4>1. \A d \in Updates(r) : d.ts \in Nat
        BY CommitIsTyped DEF Updates, StateInv
      <4> QED
        BY <1>5, <1>6, <1>7, <2>3, <4>1
    <3> QED
      BY <1>6, <2>2, <2>3, <3>1 DEF IsLast
  <2>4. CASE r \notin c.wrote
    BY <1>6, <2>1, <2>2, <2>4
  <2> QED
    BY <2>3, <2>4
<1>9. ASSUME ReadLocks, NEW d \in ToSet(commits'), NEW r \in DOMAIN d.saw
      PROVE  IsLast(d.saw[r], {e \in Updates(r)' : e.ts < d.ts})
  <2>1. CASE d \in ToSet(commits)
    <3>1. IsLast(d.saw[r], {e \in Updates(r) : e.ts < d.ts})
      BY <1>9, <2>1 DEF HistInv
    <3>2. r \in c.wrote => d.ts < c.ts
      BY <1>1, <1>3, <1>9, <2>1, NewIsLast
    <3>3. d.ts \in Nat
      BY <2>1, CommitIsTyped DEF StateInv
    <3>4. {e \in Updates(r)' : e.ts < d.ts} = {e \in Updates(r) : e.ts < d.ts}
      BY <1>5, <1>6, <3>2, <3>3
    <3> QED
      BY <3>1, <3>4
  <2>2. CASE d \notin ToSet(commits)
    <3>1. d = c
      BY <1>1, <2>2 DEF IsNew
    <3>2. r \in DOMAIN txn[t].saw /\ d.saw[r] = txn[t].saw[r]
      BY <1>1, <1>9, <3>1 DEF IsNew
    <3>3. d.saw[r] = store[r]
      BY <1>3, <1>9, <3>2 DEF Follows
    <3>4. r \in Record
      BY <3>2 DEF StateInv, TypeInv, TxnType, SawType
    <3>5. \A e \in Updates(r) : e.ts < c.ts
      BY <1>1, <1>3, <1>9, <3>1, NewIsLast DEF Updates
    <3>6. {e \in Updates(r)' : e.ts < d.ts} = Updates(r)
      BY <1>5, <1>6, <3>1, <3>5
    <3> QED
      BY <3>3, <3>4, <3>6 DEF HistInv
  <2> QED
    BY <2>1, <2>2
<1> QED
  BY <1>2, <1>8, <1>9 DEF HistInv

(***************************************************************************)
(* The locks: a transaction that is over holds none,...                    *)
(***************************************************************************)
LEMMA LockReleased ==
  ASSUME LockInv, UNCHANGED <<commits, store>>, NEW t \in Thread,
         \A u \in Thread : u # t => txn'[u] = txn[u],
         txn'[t].writes = {}, txn'[t].saw = <<>>,
         txn'[t].pc \notin {"install", "log", "sync"}
  PROVE  LockInv'
<1>1. DOMAIN txn'[t].saw = {}
  OBVIOUS
<1>2. ASSUME NEW u \in Thread
      PROVE  /\ txn'[u].writes \subseteq DOMAIN txn'[u].saw
             /\ \A v \in Thread \ {u} : Exclusive(u, v)'
             /\ txn'[u].pc = "install" => Follows(u)'
             /\ txn'[u].pc \in {"log", "sync"} => IsNewest(u)'
  <2>1. CASE u = t
    BY <1>1, <2>1 DEF Exclusive
  <2>2. CASE u # t
    <3>1. \A v \in Thread \ {u} : Exclusive(u, v)'
      BY <1>1, <2>2 DEF LockInv, Exclusive
    <3>2. txn'[u] = txn[u]
      BY <2>2
    <3>3. (Follows(u)' <=> Follows(u)) /\ (IsNewest(u)' <=> IsNewest(u))
      BY <3>2 DEF Follows, IsNewest, Conflicts
    <3> QED
      BY <3>1, <3>2, <3>3 DEF LockInv
  <2> QED
    BY <2>1, <2>2
<1> QED
  BY <1>2 DEF LockInv

(***************************************************************************)
(* ... one that starts has found its records unlocked, and its epoch is    *)
(* the newest,...                                                          *)
(***************************************************************************)
LEMMA LockGetEpoch ==
  ASSUME StateInv, HistInv, LockInv, NEW t \in Thread, NEW p \in Procedures,
         GetEpoch(t, p)
  PROVE  LockInv'
<1>1. /\ \A u \in Thread : u # t => txn'[u] = txn[u]
      /\ txn'[t] = [pc |-> "install", saw |-> [r \in p.reads |-> store[r]],
                    writes |-> p.writes, epoch |-> epoch, ts |-> 0]
      /\ commits' = commits /\ store' = store
  BY DEF GetEpoch, StateInv, TypeInv
<1>2. \A u \in Thread \ {t} : p.reads \cap txn[u].writes = {}
                              /\ (ReadLocks => p.writes \cap DOMAIN txn[u].saw = {})
  BY DEF GetEpoch, Unlocked
<1>3. p.writes \subseteq p.reads
  BY RecoveryConstants
<1>4. txn'[t].writes = p.writes /\ DOMAIN txn'[t].saw = p.reads
  BY <1>1
<1>5. \A u, v \in Thread : u # v => Exclusive(u, v)'
  <2> SUFFICES ASSUME NEW u \in Thread, NEW v \in Thread, u # v PROVE Exclusive(u, v)'
    OBVIOUS
  <2>1. CASE u = t
    BY <1>1, <1>2, <1>3, <1>4, <2>1 DEF Exclusive
  <2>2. CASE v = t
    BY <1>1, <1>2, <1>3, <1>4, <2>2 DEF Exclusive
  <2>3. CASE u # t /\ v # t
    BY <1>1, <2>3 DEF LockInv, Exclusive
  <2> QED
    BY <2>1, <2>2, <2>3
<1>6. Follows(t)'
  <2>1. \A c \in ToSet(commits) : c.epoch <= epoch
    BY DEF HistInv, HistOf, ToSet, StateInv, TypeInv
  <2>2. txn'[t].epoch = epoch /\ \A r \in DOMAIN txn'[t].saw : txn'[t].saw[r] = store[r]
    BY <1>1
  <2> QED
    BY <1>1, <2>1, <2>2 DEF Follows
<1>7. \A u \in Thread : u # t => (Follows(u)' <=> Follows(u)) /\ (IsNewest(u)' <=> IsNewest(u))
  BY <1>1 DEF Follows, IsNewest, Conflicts
<1>8. txn'[t].pc = "install"
  BY <1>1
<1> QED
  BY <1>1, <1>3, <1>4, <1>5, <1>6, <1>7, <1>8 DEF LockInv

(***************************************************************************)
(* ... and one that installs conflicts with no other that is about to.     *)
(***************************************************************************)
LEMMA LockInstall ==
  ASSUME StateInv, HistInv, LockInv, NoWrap', NEW t \in Thread, Install(t)
  PROVE  LockInv'
<1>1. PICK c : IsNew(c, t)
  BY Installed
<1>2. Follows(t)
  BY DEF LockInv, Install
<1>3. /\ txn'[t].pc = "log" /\ txn'[t].ts = c.ts /\ txn'[t].epoch = c.epoch
      /\ txn'[t].writes = txn[t].writes /\ txn'[t].saw = txn[t].saw
  BY <1>1 DEF IsNew, StateInv, TypeInv, TxnType
<1>4. \A u \in Thread : u # t => txn'[u] = txn[u]
  BY <1>1 DEF IsNew
<1>5. \A u, v \in Thread : u # v => Exclusive(u, v)'
  <2>1. \A u \in Thread : txn'[u].writes = txn[u].writes /\ txn'[u].saw = txn[u].saw
    BY <1>3, <1>4
  <2> QED
    BY <2>1 DEF LockInv, Exclusive
<1>6. ASSUME NEW u \in Thread, u # t PROVE (Follows(u) => Follows(u)') /\ (IsNewest(u) => IsNewest(u)')
  <2>1. Exclusive(t, u) /\ Exclusive(u, t)
    BY <1>6 DEF LockInv
  <2>2. txn'[u] = txn[u] /\ ToSet(commits)' = ToSet(commits) \cup {c}
    BY <1>1, <1>6 DEF IsNew
  <2>3. c.thread = t /\ c.wrote = txn[t].writes /\ c.saw = txn[t].saw
    BY <1>1 DEF IsNew
  <2>4. ~Conflicts(c, u)
    BY <1>6, <2>1, <2>3 DEF Conflicts, Exclusive
  <2>5. \A d : Conflicts(d, u)' <=> Conflicts(d, u)
    BY <2>2 DEF Conflicts
  <2>6. \A r \in DOMAIN txn[u].saw : ReadLocks => store'[r] = store[r]
    <3>1. DOMAIN txn[u].saw \subseteq Record
      BY DEF StateInv, TypeInv, TxnType, SawType
    <3>2. \A r \in Record : r \notin c.wrote => store'[r] = store[r]
      BY <1>1 DEF IsNew
    <3>3. ReadLocks => DOMAIN txn[u].saw \cap c.wrote = {}
      BY <2>1, <2>3 DEF Exclusive
    <3> QED
      BY <3>1, <3>2, <3>3
  <2>7. ASSUME Follows(u) PROVE Follows(u)'
    BY <2>2, <2>4, <2>5, <2>6, <2>7 DEF Follows
  <2>8. ASSUME IsNewest(u) PROVE IsNewest(u)'
    BY <1>6, <2>2, <2>3, <2>8 DEF IsNewest
  <2> QED
    BY <2>7, <2>8
<1>7. IsNewest(t)'
  <2>1. \A d \in ToSet(commits) : d.thread = t => d.ts <= c.ts
    <3>1. \A d \in ToSet(commits) : d.thread = t => d.ts < c.ts
      BY <1>1, <1>2, NewIsLast
    <3>2. \A d \in ToSet(commits) : d.ts \in Nat
      BY CommitIsTyped DEF StateInv
    <3>3. c.ts \in Nat
      BY <1>1 DEF IsNew
    <3> QED
      BY <3>1, <3>2, <3>3
  <2>2. ToSet(commits)' = ToSet(commits) \cup {c} /\ c.thread = t /\ c.ts \in Nat
    BY <1>1 DEF IsNew
  <2> QED
    BY <1>3, <2>1, <2>2 DEF IsNewest
<1>8. \A u \in Thread : txn'[u].writes \subseteq DOMAIN txn'[u].saw
  BY <1>3, <1>4 DEF LockInv
<1> QED
  BY <1>3, <1>4, <1>5, <1>6, <1>7, <1>8 DEF LockInv

(***************************************************************************)
(* Every step keeps the locks and the history.                             *)
(***************************************************************************)
LEMMA LockNext ==
  ASSUME StateInv, HistInv, LockInv, NoWrap', [Next]_vars
  PROVE  LockInv' /\ HistInv'
<1>0. /\ txn \in [Thread -> TxnType] /\ epoch \in Nat
      /\ NoTxn.writes = {} /\ NoTxn.saw = <<>> /\ NoTxn.pc = "idle"
  BY DEF StateInv, TypeInv, NoTxn
<1>1. ASSUME NEW t \in Thread, Run(t) PROVE LockInv' /\ HistInv'
  <2>1. CASE \E p \in Procedures : GetEpoch(t, p)
    <3>1. UNCHANGED <<commits, store, epoch>>
      BY <2>1 DEF GetEpoch
    <3> QED
      BY <1>0, <2>1, <3>1, LockGetEpoch, HistKept
  <2>2. CASE Install(t)
    BY <2>2, LockInstall, HistInstall
  <2>3. CASE AppendEntry(t) \/ Sync(t) \/ SyncCleanUp(t)
    <3>1. /\ UNCHANGED <<commits, store, epoch>> /\ txn'[t] = NoTxn
          /\ \A u \in Thread : u # t => txn'[u] = txn[u]
      BY <1>0, <2>3 DEF AppendEntry, Sync, SyncCleanUp, LogAndRelease
    <3> QED
      BY <1>0, <3>1, LockReleased, HistKept
  <2>4. CASE CleanUp(t)
    <3>1. /\ UNCHANGED <<commits, store, epoch>>
          /\ txn'[t] = [txn[t] EXCEPT !.pc = "cleanup"]
          /\ \A u \in Thread : u # t => txn'[u] = txn[u]
          /\ txn[t].pc = "idle"
      BY <1>0, <2>4 DEF CleanUp
    <3>2. txn[t] = NoTxn
      BY <3>1 DEF StateInv, PcInv, PcOf
    <3>3. txn'[t].writes = {} /\ txn'[t].saw = <<>> /\ txn'[t].pc = "cleanup"
      BY <1>0, <3>1, <3>2 DEF TxnType
    <3>4. txn'[t].pc \notin {"install", "log", "sync"}
      BY <3>3
    <3>5. LockInv'
      BY <3>1, <3>3, <3>4, LockReleased
    <3> QED
      BY <1>0, <3>1, <3>5, HistKept
  <2>5. CASE WriteChunk(t)
    <3>1. /\ UNCHANGED <<commits, store, epoch>>
          /\ txn[t].pc = "log" /\ txn' = [txn EXCEPT ![t].pc = "sync"]
      BY <2>5 DEF WriteChunk
    <3>2. /\ \A u \in Thread : /\ txn'[u].writes = txn[u].writes /\ txn'[u].saw = txn[u].saw
                               /\ txn'[u].ts = txn[u].ts /\ txn'[u].epoch = txn[u].epoch
          /\ \A u \in Thread : u # t => txn'[u].pc = txn[u].pc
          /\ txn'[t].pc = "sync"
      BY <1>0, <3>1 DEF TxnType
    <3>3. \A u, v \in Thread : Exclusive(u, v)' <=> Exclusive(u, v)
      BY <3>2 DEF Exclusive
    <3>4. \A u \in Thread : (Follows(u)' <=> Follows(u)) /\ (IsNewest(u)' <=> IsNewest(u))
      BY <3>1, <3>2 DEF Follows, IsNewest, Conflicts
    <3>5. LockInv'
      BY <3>1, <3>2, <3>3, <3>4 DEF LockInv
    <3> QED
      BY <1>0, <3>1, <3>5, HistKept
  <2> QED
    BY <1>1, <2>1, <2>2, <2>3, <2>4, <2>5 DEF Run
<1>2. ASSUME \/ \E t \in Thread : ReplayValue(t) \/ NextBatch(t)
             \/ ReplayCommand \/ AdvanceEpoch \/ UNCHANGED vars
      PROVE  LockInv' /\ HistInv'
  <2>1. UNCHANGED <<commits, store, txn>> /\ epoch' \in {epoch, epoch + 1}
    BY <1>2 DEF ReplayValue, NextBatch, ReplayCommand, AdvanceEpoch, vars
  <2>2. LockInv'
    BY <2>1 DEF LockInv, Exclusive, Follows, IsNewest, Conflicts
  <2> QED
    BY <1>0, <2>1, <2>2, HistKept
<1>3. ASSUME Crash \/ Exit PROVE LockInv' /\ HistInv'
  <2>1. UNCHANGED <<commits, store, epoch>> /\ txn' = [t \in Thread |-> NoTxn]
    BY <1>3 DEF Crash, Exit, StartReplay
  <2>2. \A t \in Thread : /\ txn'[t].writes = {} /\ txn'[t].pc = "idle"
                          /\ DOMAIN txn'[t].saw = {}
    BY <1>0, <2>1
  <2>3. LockInv'
    BY <2>2 DEF LockInv, Exclusive
  <2> QED
    BY <1>0, <2>1, <2>3, HistKept
<1> QED
  BY <1>1, <1>2, <1>3 DEF Next, Ended

(***************************************************************************)
(* A transaction that is being logged is the newest commit of its thread;  *)
(* the others of the thread have smaller timestamps.                       *)
(***************************************************************************)
LEMMA CommitLogged ==
  ASSUME StateInv, HistInv, LockInv, NoWrap, NEW t \in Thread,
         txn[t].pc \in {"log", "sync"}
  PROVE  /\ txn[t].ts \in Nat \ {0} /\ txn[t].epoch \in 1..epoch
         /\ txn[t].ts \in ByEpoch(t, txn[t].epoch)
         /\ \A c \in ToSet(commits) : c.thread = t =>
              /\ c.ts # txn[t].ts => c.ts < txn[t].ts
              /\ c.ts = txn[t].ts => c.epoch = txn[t].epoch
<1>1. txn[t].epoch \in 1..epoch
  BY DEF StateInv, PcInv, PcOf
<1>2. IsNewest(t)
  BY DEF LockInv
<1>3. PICK d \in ToSet(commits) : d.ts = txn[t].ts /\ d.thread = t /\ d.epoch = txn[t].epoch
  BY <1>2 DEF IsNewest
<1>4. \A c \in ToSet(commits) : c.thread = t => c.ts <= d.ts
  BY <1>2, <1>3 DEF IsNewest
<1>5. \A c \in ToSet(commits) : c.ts \in Nat /\ c.ts > 0 /\ (c.ts = d.ts => c = d)
  BY CommitOrder
<1>6. txn[t].ts \in ByEpoch(t, txn[t].epoch)
  BY <1>3 DEF ByEpoch
<1> QED
  BY <1>1, <1>3, <1>4, <1>5, <1>6

(***************************************************************************)
(* The timestamps of the commits of an epoch are positive numbers.         *)
(***************************************************************************)
LEMMA ByEpochType ==
  ASSUME StateInv, HistInv, NoWrap, NEW t \in Thread, NEW e
  PROVE  ByEpoch(t, e) \subseteq Nat \ {0}
BY CommitOrder DEF ByEpoch

(***************************************************************************)
(* The chunks of a thread, and what of the buffer is not in them.          *)
(***************************************************************************)
LEMMA LoggedType ==
  ASSUME StateInv, NEW t \in Thread
  PROVE  /\ Chunks(t) \in Seq(ChunkType) /\ Entries(Chunks(t)) \in Seq(Nat)
         /\ buffer[t] \in Seq(Nat) /\ Unwritten(t) \in Seq(Nat)
         /\ Logged(t) \in Seq(Nat)
         /\ ToSet(Logged(t)) = ToSet(Entries(Chunks(t))) \cup ToSet(Unwritten(t))
         /\ \A i \in DOMAIN Chunks(t) : Chunks(t)[i].epoch \in {CleanedUp} \cup Nat
<1>1. Chunks(t) \in Seq(ChunkType)
  BY ConcatProperties DEF Chunks, StateInv, TypeInv
<1>2. Entries(Chunks(t)) \in Seq(Nat)
  BY <1>1, EntriesOf
<1>3. buffer[t] \in Seq(Nat)
  BY DEF StateInv, TypeInv
<1>4. Unwritten(t) \in Seq(Nat)
  BY <1>3 DEF Unwritten
<1>5. Logged(t) \in Seq(Nat)
  BY <1>2, <1>4, ConcatProperties DEF Logged
<1>6. ToSet(Logged(t)) = ToSet(Entries(Chunks(t))) \cup ToSet(Unwritten(t))
  BY <1>2, <1>4, SetConcatenated DEF Logged
<1>7. \A i \in DOMAIN Chunks(t) : Chunks(t)[i] \in ChunkType
  BY <1>1, ElementOfSeq, LenProperties
<1> QED
  BY <1>1, <1>2, <1>3, <1>4, <1>5, <1>6, <1>7 DEF ChunkType

(***************************************************************************)
(* What is logged are the transactions that have returned.                 *)
(***************************************************************************)
LEMMA LoggedIsReturned ==
  ASSUME StateInv, HistInv, LockInv, NoWrap, NEW t \in Thread, LogOf(t)
  PROVE  ToSet(Logged(t)) = Returned(t)
<1>1. \A x : x \in ToSet(Entries(Chunks(t))) <=>
               \E i \in DOMAIN Chunks(t) : x \in ToSet(Chunks(t)[i].entries)
  BY LoggedType, EntriesOf
<1>2. \A i \in DOMAIN Chunks(t) :
        ToSet(Chunks(t)[i].entries) = ByEpoch(t, ChunkEpoch(t, Chunks(t)[i]))
  BY DEF LogOf, ChunksOf
<1>3. Unwritten(t) = IF Ending(t) THEN <<>> ELSE buffer[t]
  BY DEF Unwritten, Ending
<1>4. ToSet(<<>>) = {}
  BY DEF ToSet
<1>5. Ending(t) => txn[t].ts = 0
  BY DEF Ending, StateInv, PcInv, PcOf, NoTxn
<1>6. txn[t].pc \notin {"log", "sync"} => txn[t].ts = 0
  BY DEF StateInv, TypeInv, TxnType, PcInv, PcOf, NoTxn
<1>7. \A c \in ToSet(commits) : c.ts > 0 /\ c.ts \in Nat /\ c.epoch \in Nat /\ c.epoch \in 1..epoch
  BY CommitOrder
<1>8. epoch \in Nat /\ lastEpoch[t] \in {CleanedUp} \cup 1..epoch
  BY DEF StateInv, TypeInv
<1>9. ASSUME NEW x \in ToSet(Logged(t)) PROVE x \in Returned(t)
  <2>1. CASE x \in ToSet(Entries(Chunks(t)))
    <3>1. PICK i \in DOMAIN Chunks(t) : x \in ByEpoch(t, ChunkEpoch(t, Chunks(t)[i]))
      BY <1>1, <1>2, <2>1
    <3>2. PICK c \in ToSet(commits) : x = c.ts /\ c.thread = t /\ c.epoch = ChunkEpoch(t, Chunks(t)[i])
      BY <3>1 DEF ByEpoch
    <3>3. CASE Ending(t)
      <4>1. c.ts # txn[t].ts
        BY <1>5, <1>7, <3>3
      <4> QED
        BY <3>2, <4>1 DEF Returned
    <3>4. CASE ~Ending(t)
      <4>1. Chunks(t)[i].epoch # CleanedUp
        BY <3>4 DEF LogOf
      <4>2. c.epoch = Chunks(t)[i].epoch /\ c.epoch < lastEpoch[t]
        BY <3>2, <4>1 DEF LogOf, ChunksOf, ChunkEpoch
      <4>3. c.ts # txn[t].ts
        <5>1. CASE txn[t].pc \in {"log", "sync"}
          <6>1. c.ts = txn[t].ts => c.epoch = txn[t].epoch
            BY <3>2, <5>1, CommitLogged
          <6>2. lastEpoch[t] <= txn[t].epoch
            <7>1. txn[t].pc = "sync" => lastEpoch[t] = txn[t].epoch
              BY DEF LogOf
            <7>2. txn[t].pc = "log" => lastEpoch[t] <= txn[t].epoch
              BY DEF LogOf
            <7> QED
              BY <1>8, <5>1, <7>1, <7>2 DEF CleanedUp
          <6>3. txn[t].epoch \in 1..epoch
            BY <5>1, CommitLogged
          <6> QED
            BY <1>7, <1>8, <4>2, <6>1, <6>2, <6>3 DEF CleanedUp
        <5>2. CASE txn[t].pc \notin {"log", "sync"}
          BY <1>6, <1>7, <5>2
        <5> QED
          BY <5>1, <5>2
      <4> QED
        BY <3>2, <4>3 DEF Returned
    <3> QED
      BY <3>3, <3>4
  <2>2. CASE x \in ToSet(Unwritten(t))
    <3>1. ~Ending(t) /\ x \in ToSet(buffer[t])
      BY <1>3, <1>4, <2>2
    <3>2. x \in ByEpoch(t, lastEpoch[t]) \ {txn[t].ts}
      BY <3>1 DEF LogOf
    <3> QED
      BY <3>2 DEF ByEpoch, Returned
  <2> QED
    BY <2>1, <2>2, LoggedType
<1>10. ASSUME NEW c \in ToSet(commits), c.thread = t, c.ts # txn[t].ts
       PROVE  c.ts \in ToSet(Logged(t))
  <2>1. c.ts \in ByEpoch(t, c.epoch)
    BY <1>10 DEF ByEpoch
  <2>2. CASE c.epoch = lastEpoch[t]
    <3>1. CASE Ending(t)
      <4>1. PICK i \in DOMAIN Chunks(t) : Chunks(t)[i].epoch = CleanedUp
        BY <3>1 DEF LogOf
      <4>2. ChunkEpoch(t, Chunks(t)[i]) = c.epoch
        BY <2>2, <4>1 DEF ChunkEpoch
      <4> QED
        BY <1>1, <1>2, <2>1, <4>2, LoggedType
    <3>2. CASE ~Ending(t)
      <4>1. c.ts \in ToSet(buffer[t])
        BY <1>10, <2>1, <2>2 DEF LogOf
      <4> QED
        BY <1>3, <3>2, <4>1, LoggedType
    <3> QED
      BY <3>1, <3>2
  <2>3. CASE \E i \in DOMAIN Chunks(t) : Chunks(t)[i].epoch = c.epoch
    <3>1. PICK i \in DOMAIN Chunks(t) : Chunks(t)[i].epoch = c.epoch
      BY <2>3
    <3>2. ChunkEpoch(t, Chunks(t)[i]) = c.epoch
      BY <1>7, <3>1 DEF ChunkEpoch, CleanedUp
    <3> QED
      BY <1>1, <1>2, <2>1, <3>2, LoggedType
  <2> QED
    BY <1>10, <2>2, <2>3 DEF LogOf, Covered
<1> QED
  BY <1>9, <1>10 DEF Returned

(***************************************************************************)
(* The log of a thread that a step does not touch.                         *)
(***************************************************************************)
LEMMA LogOfOthers ==
  ASSUME NEW u \in Thread, LogOf(u),
         txn'[u] = txn[u], left'[u] = left[u], buffer'[u] = buffer[u],
         lastEpoch'[u] = lastEpoch[u], pending'[u] = pending[u], file'[u] = file[u],
         \A c : c.thread = u => (c \in ToSet(commits)' <=> c \in ToSet(commits))
  PROVE  LogOf(u)'
<1>1. Chunks(u)' = Chunks(u) /\ Logged(u)' = Logged(u) /\ (Ending(u)' <=> Ending(u))
  BY DEF Chunks, Logged, Unwritten, Ending, Entries
<1>2. \A e : ByEpoch(u, e)' = ByEpoch(u, e)
  BY DEF ByEpoch
<1>3. \A k : ChunkEpoch(u, k)' = ChunkEpoch(u, k)
  BY DEF ChunkEpoch
<1>4. ChunksOf(u, Chunks(u))'
  BY <1>1, <1>2, <1>3 DEF LogOf, ChunksOf
<1>5. \A c \in ToSet(commits)' : c.thread = u /\ c.ts # txn'[u].ts => Covered(c, Chunks(u))'
  BY <1>1 DEF LogOf, Covered
<1>6. ToSet(buffer[u])' = (ByEpoch(u, lastEpoch[u]) \ {txn[u].ts})'
  BY <1>2 DEF LogOf
<1>7. \A i \in DOMAIN Chunks(u)' : Chunks(u)'[i].whole
  BY <1>1 DEF LogOf
<1>8. Ending(u)' <=> \E i \in DOMAIN Chunks(u)' : Chunks(u)'[i].epoch = CleanedUp
  BY <1>1 DEF LogOf
<1>9. Ascends(Logged(u))'
  BY <1>1 DEF LogOf, Ascends
<1> QED
  BY <1>4, <1>5, <1>6, <1>7, <1>8, <1>9 DEF LogOf

(***************************************************************************)
(* The log of a thread that starts or installs, of whose buffer and chunks *)
(* nothing changes.                                                        *)
(***************************************************************************)
LEMMA LogGetEpoch ==
  ASSUME StateInv, NEW t \in Thread, LogOf(t), NEW p \in Procedures, GetEpoch(t, p)
  PROVE  LogOf(t)'
<1>1. /\ txn[t] = NoTxn /\ left[t] > 0 /\ left'[t] = left[t]
      /\ txn'[t].pc = "install" /\ txn'[t].ts = 0 /\ txn'[t].epoch = epoch
      /\ UNCHANGED <<buffer, lastEpoch, pending, file, commits>>
  BY DEF GetEpoch, StateInv, TypeInv, PcInv, PcOf, log
<1>2. ~Ending(t) /\ ~Ending(t)' /\ txn[t].ts = 0 /\ txn[t].pc = "idle"
  BY <1>1 DEF Ending, NoTxn, Closed
<1>3. Chunks(t)' = Chunks(t) /\ Unwritten(t)' = Unwritten(t)
  BY <1>1, <1>2 DEF Chunks, Unwritten, Ending
<1>4. Logged(t)' = Logged(t)
  BY <1>3 DEF Logged, Entries
<1>5. \A e : ByEpoch(t, e)' = ByEpoch(t, e)
  BY <1>1 DEF ByEpoch
<1>6. \A k : ChunkEpoch(t, k)' = ChunkEpoch(t, k)
  BY <1>1 DEF ChunkEpoch
<1>7. ChunksOf(t, Chunks(t))'
  BY <1>1, <1>3, <1>5, <1>6 DEF LogOf, ChunksOf
<1>8. lastEpoch[t] <= epoch
  BY DEF StateInv, TypeInv, CleanedUp
<1>9. \A c \in ToSet(commits)' : c.thread = t /\ c.ts # txn'[t].ts => Covered(c, Chunks(t))'
  BY <1>1, <1>2, <1>3 DEF LogOf, Covered
<1>10. ToSet(buffer[t])' = (ByEpoch(t, lastEpoch[t]) \ {txn[t].ts})'
  BY <1>1, <1>2, <1>5 DEF LogOf
<1>11. Ascends(Logged(t))'
  BY <1>4 DEF LogOf, Ascends
<1>12. \A i \in DOMAIN Chunks(t)' : Chunks(t)'[i].whole
  BY <1>3 DEF LogOf
<1>13. Ending(t)' <=> \E i \in DOMAIN Chunks(t)' : Chunks(t)'[i].epoch = CleanedUp
  BY <1>2, <1>3 DEF LogOf
<1>14. txn'[t].pc \in {"install", "log"} => lastEpoch'[t] <= txn'[t].epoch
  BY <1>1, <1>8
<1>15. txn'[t].pc # "sync"
  BY <1>1
<1> QED
  BY <1>7, <1>9, <1>10, <1>11, <1>12, <1>13, <1>14, <1>15 DEF LogOf

(***************************************************************************)
(* The log of a thread that installs: of its commits, the new one alone is *)
(* not in the log yet.                                                     *)
(***************************************************************************)
LEMMA LogInstall ==
  ASSUME StateInv, HistInv, NoWrap', NoWrap, NEW t \in Thread, LogOf(t), Install(t)
  PROVE  LogOf(t)'
<1>1. PICK c : IsNew(c, t)
  BY Installed
<1>2. /\ txn'[t].pc = "log" /\ txn'[t].ts = c.ts /\ txn'[t].epoch = txn[t].epoch
      /\ c.epoch = txn[t].epoch /\ c.thread = t /\ txn[t].pc = "install"
  <2>1. txn[t] \in TxnType /\ txn[t].pc = "install"
    BY DEF StateInv, TypeInv, Install
  <2>2. /\ txn'[t] = [txn[t] EXCEPT !.pc = "log", !.ts = c.ts]
        /\ c.epoch = txn[t].epoch /\ c.thread = t
    BY <1>1 DEF IsNew
  <2> QED
    BY <2>1, <2>2 DEF TxnType
<1>3. UNCHANGED <<left, buffer, lastEpoch, pending, file>>
  BY DEF Install, log
<1>4. txn[t].ts = 0 /\ left[t] > 0 /\ txn[t].epoch \in 1..epoch
  BY <1>2 DEF StateInv, PcInv, PcOf
<1>5. lastEpoch[t] <= c.epoch
  BY <1>2 DEF LogOf
<1>6. ~Ending(t) /\ ~Ending(t)'
  BY <1>2, <1>3, <1>4 DEF Ending, Closed
<1>7. Chunks(t)' = Chunks(t) /\ Unwritten(t)' = Unwritten(t)
  BY <1>3, <1>6 DEF Chunks, Unwritten, Ending
<1>8. Logged(t)' = Logged(t)
  BY <1>7 DEF Logged, Entries
<1>9. ToSet(commits)' = ToSet(commits) \cup {c} /\ \A d \in ToSet(commits) : d.ts # c.ts
  BY <1>1 DEF IsNew
<1>12. 0 \notin ByEpoch(t, lastEpoch[t]) /\ c.ts \notin ByEpoch(t, lastEpoch[t])
  BY <1>9, ByEpochType DEF ByEpoch
<1>13. ToSet(buffer[t])' = (ByEpoch(t, lastEpoch[t]) \ {txn[t].ts})'
  <2>1. ToSet(buffer[t]) = ByEpoch(t, lastEpoch[t]) \ {txn[t].ts}
    BY DEF LogOf
  <2>2. ByEpoch(t, lastEpoch[t])' = IF lastEpoch[t] = c.epoch
          THEN ByEpoch(t, lastEpoch[t]) \cup {c.ts} ELSE ByEpoch(t, lastEpoch[t])
    <3>1. ByEpoch(t, lastEpoch[t])' =
            {d.ts : d \in {b \in ToSet(commits) \cup {c} : b.thread = t /\ b.epoch = lastEpoch[t]}}
      BY <1>3, <1>9 DEF ByEpoch
    <3>2. CASE lastEpoch[t] = c.epoch
      BY <1>2, <3>1, <3>2 DEF ByEpoch
    <3>3. CASE lastEpoch[t] # c.epoch
      BY <3>1, <3>3 DEF ByEpoch
    <3> QED
      BY <3>2, <3>3
  <2> QED
    BY <1>2, <1>3, <1>4, <1>12, <2>1, <2>2
<1>14. ChunksOf(t, Chunks(t))'
  <2>1. lastEpoch[t] \in {CleanedUp} \cup Nat /\ c.epoch \in Nat
    BY <1>2, <1>4 DEF StateInv, TypeInv
  <2> SUFFICES ASSUME NEW i \in DOMAIN Chunks(t)
               PROVE  /\ Chunks(t)[i].epoch = CleanedUp => i = Len(Chunks(t))
                      /\ Chunks(t)[i].epoch # CleanedUp =>
                           /\ Chunks(t)[i].epoch < lastEpoch[t]
                           /\ \A j \in DOMAIN Chunks(t) : j < i => Chunks(t)[j].epoch < Chunks(t)[i].epoch
                      /\ ToSet(Chunks(t)[i].entries) = ByEpoch(t, ChunkEpoch(t, Chunks(t)[i]))'
    BY <1>3, <1>7 DEF ChunksOf
  <2>2. Chunks(t)[i].epoch # CleanedUp /\ Chunks(t)[i].epoch \in {CleanedUp} \cup Nat
    BY <1>6, LoggedType DEF LogOf
  <2>3. Chunks(t)[i].epoch < lastEpoch[t]
    BY <2>2 DEF LogOf, ChunksOf
  <2>4. Chunks(t)[i].epoch # c.epoch
    BY <1>5, <2>1, <2>2, <2>3 DEF CleanedUp
  <2>5. ChunkEpoch(t, Chunks(t)[i])' = Chunks(t)[i].epoch /\ ChunkEpoch(t, Chunks(t)[i]) = Chunks(t)[i].epoch
    BY <1>7, <2>2 DEF ChunkEpoch
  <2>6. ByEpoch(t, Chunks(t)[i].epoch)' = ByEpoch(t, Chunks(t)[i].epoch)
    BY <1>7, <1>9, <2>4, <1>2 DEF ByEpoch
  <2>7. ByEpoch(t, ChunkEpoch(t, Chunks(t)[i]))' = ByEpoch(t, ChunkEpoch(t, Chunks(t)[i]))
    BY <1>7, <2>5, <2>6 DEF ByEpoch
  <2> QED
    BY <2>2, <2>7 DEF LogOf, ChunksOf
<1>15. \A d \in ToSet(commits)' : d.thread = t /\ d.ts # txn'[t].ts => Covered(d, Chunks(t))'
  <2>1. \A d \in ToSet(commits) : d.thread = t => Covered(d, Chunks(t))
    BY <1>4, CommitOrder DEF LogOf
  <2> QED
    BY <1>2, <1>3, <1>7, <1>9, <2>1 DEF Covered
<1>16. Ascends(Logged(t))'
  BY <1>8 DEF LogOf, Ascends
<1>17. \A i \in DOMAIN Chunks(t)' : Chunks(t)'[i].whole
  BY <1>7 DEF LogOf
<1>18. Ending(t)' <=> \E i \in DOMAIN Chunks(t)' : Chunks(t)'[i].epoch = CleanedUp
  BY <1>6, <1>7 DEF LogOf
<1>19. txn'[t].pc \in {"install", "log"} => lastEpoch'[t] <= txn'[t].epoch
  BY <1>2, <1>3, <1>5
<1> QED
  BY <1>2, <1>13, <1>14, <1>15, <1>16, <1>17, <1>18, <1>19 DEF LogOf

(***************************************************************************)
(* A transaction that is logged, in the epoch of the last or as the first: *)
(* its timestamp is appended to the buffer.                                *)
(***************************************************************************)
LEMMA FirstHasNoOther ==
  ASSUME StateInv, HistInv, LockInv, NoWrap, NEW t \in Thread, LogOf(t),
         txn[t].pc \in {"log", "sync"}, lastEpoch[t] = CleanedUp
  PROVE  /\ DOMAIN Chunks(t) = {}
         /\ \A c \in ToSet(commits) : c.thread = t => c.ts = txn[t].ts
<1>1. ~Ending(t)
  BY DEF StateInv, PcInv, PcOf, Ending
<1>2. \A i \in DOMAIN Chunks(t) : FALSE
  <2> SUFFICES ASSUME NEW i \in DOMAIN Chunks(t) PROVE FALSE
    OBVIOUS
  <2>1. Chunks(t)[i].epoch # CleanedUp /\ Chunks(t)[i].epoch \in {CleanedUp} \cup Nat
    BY <1>1, LoggedType DEF LogOf
  <2>2. Chunks(t)[i].epoch < lastEpoch[t]
    BY <2>1 DEF LogOf, ChunksOf
  <2> QED
    BY <2>1, <2>2 DEF CleanedUp
<1>3. ASSUME NEW c \in ToSet(commits), c.thread = t, c.ts # txn[t].ts PROVE FALSE
  <2>1. c.epoch \in 1..epoch /\ c.epoch \in Nat /\ epoch \in Nat
    BY CommitOrder DEF StateInv, TypeInv
  <2>2. Covered(c, Chunks(t))
    BY <1>3 DEF LogOf
  <2>3. c.epoch = lastEpoch[t]
    BY <1>2, <1>3, <2>2 DEF Covered
  <2> QED
    BY <2>1, <2>3 DEF CleanedUp
<1> QED
  BY <1>2, <1>3

(***************************************************************************)
(* The entry of a commit is appended to the buffer of its epoch.           *)
(***************************************************************************)
LEMMA LogEntry ==
  ASSUME StateInv, HistInv, LockInv, NoWrap, NEW t \in Thread, LogOf(t),
         txn[t].pc \in {"log", "sync"}, lastEpoch[t] \in {CleanedUp, txn[t].epoch},
         commits' = commits, Chunks(t)' = Chunks(t),
         buffer'[t] = Append(buffer[t], txn[t].ts), lastEpoch'[t] = txn[t].epoch,
         txn'[t] = NoTxn, left'[t] # Closed
  PROVE  LogOf(t)'
<1>1. /\ txn'[t].pc = "idle" /\ txn'[t].ts = 0
      /\ ~Ending(t) /\ ~Ending(t)'
  BY DEF NoTxn, Ending, StateInv, PcInv, PcOf
<1>2. /\ txn[t].ts \in Nat \ {0} /\ txn[t].epoch \in Nat /\ txn[t].epoch \in 1..epoch
      /\ txn[t].ts \in ByEpoch(t, txn[t].epoch)
  <2>1. epoch \in Nat
    BY DEF StateInv, TypeInv
  <2>2. txn[t].ts \in Nat \ {0} /\ txn[t].epoch \in 1..epoch /\ txn[t].ts \in ByEpoch(t, txn[t].epoch)
    BY CommitLogged
  <2> QED
    BY <2>1, <2>2
<1>3. \A e : ByEpoch(t, e)' = ByEpoch(t, e)
  BY DEF ByEpoch
<1>4. lastEpoch[t] = CleanedUp =>
        /\ DOMAIN Chunks(t) = {}
        /\ \A c \in ToSet(commits) : c.thread = t => c.ts = txn[t].ts
  BY FirstHasNoOther
<1>5. ToSet(buffer'[t]) = ByEpoch(t, txn[t].epoch)
  <2>1. buffer[t] \in Seq(Nat)
    BY LoggedType
  <2>2. ToSet(buffer'[t]) = ToSet(buffer[t]) \cup {txn[t].ts}
    BY <1>2, <2>1, SetAppended
  <2>3. ToSet(buffer[t]) = ByEpoch(t, lastEpoch[t]) \ {txn[t].ts}
    BY DEF LogOf
  <2>4. CASE lastEpoch[t] = txn[t].epoch
    BY <1>2, <2>2, <2>3, <2>4
  <2>5. CASE lastEpoch[t] = CleanedUp
    BY <1>2, <1>4, <2>2, <2>3, <2>5 DEF ByEpoch
  <2> QED
    BY <2>4, <2>5
<1>6. ToSet(buffer[t])' = (ByEpoch(t, lastEpoch[t]) \ {txn[t].ts})'
  <2>1. 0 \notin ByEpoch(t, txn[t].epoch)
    BY ByEpochType
  <2> QED
    BY <1>1, <1>3, <1>5, <2>1
<1>7. ChunksOf(t, Chunks(t))'
  <2>1. CASE lastEpoch[t] = txn[t].epoch
    <3>1. \A k : ChunkEpoch(t, k)' = ChunkEpoch(t, k)
      BY <2>1 DEF ChunkEpoch
    <3> QED
      BY <1>3, <2>1, <3>1 DEF LogOf, ChunksOf
  <2>2. CASE lastEpoch[t] = CleanedUp
    BY <1>4, <2>2 DEF ChunksOf
  <2> QED
    BY <2>1, <2>2
<1>8. \A c \in ToSet(commits)' : c.thread = t /\ c.ts # txn'[t].ts => Covered(c, Chunks(t))'
  <2> SUFFICES ASSUME NEW c \in ToSet(commits), c.thread = t PROVE Covered(c, Chunks(t))'
    OBVIOUS
  <2>1. CASE c.ts = txn[t].ts
    BY <2>1, CommitLogged DEF Covered
  <2>2. CASE c.ts # txn[t].ts
    <3>1. lastEpoch[t] = txn[t].epoch /\ Covered(c, Chunks(t))
      BY <1>4, <2>2 DEF LogOf
    <3> QED
      BY <3>1 DEF Covered
  <2> QED
    BY <2>1, <2>2
<1>9. Ascends(Logged(t))'
  <2>1. /\ Entries(Chunks(t)) \in Seq(Nat) /\ buffer[t] \in Seq(Nat)
        /\ Logged(t) \in Seq(Nat)
    BY LoggedType
  <2>2. Logged(t) = Entries(Chunks(t)) \o buffer[t]
    BY <1>1 DEF Logged, Unwritten, Ending
  <2>3. Logged(t)' = Entries(Chunks(t)) \o Append(buffer[t], txn[t].ts)
    BY <1>1 DEF Logged, Unwritten, Ending, Entries
  <2>4. Logged(t)' = Append(Logged(t), txn[t].ts)
    <3> DEFINE a == Entries(Chunks(t))
               b == buffer[t]
               x == txn[t].ts
    <3>1. a \in Seq(Nat) /\ b \in Seq(Nat) /\ x \in Nat
      BY <1>2, <2>1
    <3> HIDE DEF a, b, x
    <3>2. a \o Append(b, x) = Append(a \o b, x)
      <4>1. /\ Append(b, x) = b \o <<x>> /\ a \o b \in Seq(Nat) /\ <<x>> \in Seq(Nat)
            /\ Append(a \o b, x) = (a \o b) \o <<x>>
        BY <3>1, AppendIsConcat, ConcatProperties
      <4>2. a \o (b \o <<x>>) = (a \o b) \o <<x>>
        BY <3>1, <4>1, ConcatAssociative
      <4> QED
        BY <4>1, <4>2
    <3> QED
      BY <2>2, <2>3, <3>2 DEF a, b, x
  <2>5. \A y \in ToSet(Logged(t)) : y < txn[t].ts
    <3>1. ToSet(Logged(t)) = Returned(t)
      BY LoggedIsReturned
    <3> QED
      BY <3>1, CommitLogged DEF Returned
  <2>6. Ascends(Logged(t))
    BY DEF LogOf
  <2> QED
    BY <1>2, <2>1, <2>4, <2>5, <2>6, Ascending DEF Ascends
<1>10. \A i \in DOMAIN Chunks(t)' : Chunks(t)'[i].whole
  BY DEF LogOf
<1>11. Ending(t)' <=> \E i \in DOMAIN Chunks(t)' : Chunks(t)'[i].epoch = CleanedUp
  BY <1>1 DEF LogOf
<1> QED
  BY <1>1, <1>6, <1>7, <1>8, <1>9, <1>10, <1>11 DEF LogOf

(***************************************************************************)
(* A chunk that is written takes the buffer: what is logged stays the same.*)
(***************************************************************************)
LEMMA ChunkAppended ==
  ASSUME StateInv, NEW t \in Thread, NEW c \in ChunkType, c.entries = buffer[t],
         pending[t] = <<>>, pending'[t] = <<c>>, file' = file,
         ~Ending(t), Unwritten(t)' = <<>>
  PROVE  /\ Chunks(t)' = Append(Chunks(t), c)
         /\ Len(Chunks(t)) \in Nat /\ DOMAIN Chunks(t) = 1..Len(Chunks(t))
         /\ Len(Chunks(t)') = Len(Chunks(t)) + 1
         /\ DOMAIN Chunks(t)' = 1..(Len(Chunks(t)) + 1)
         /\ Chunks(t)'[Len(Chunks(t)) + 1] = c
         /\ \A i \in DOMAIN Chunks(t) : Chunks(t)'[i] = Chunks(t)[i]
         /\ Logged(t)' = Logged(t)
<1>1. Chunks(t) = file[t] /\ file[t] \in Seq(ChunkType)
  BY ConcatEmptySeq DEF Chunks, StateInv, TypeInv
<1>2. Chunks(t)' = Append(Chunks(t), c)
  BY <1>1, AppendIsConcat DEF Chunks
<1>3. /\ Len(Chunks(t)) \in Nat /\ DOMAIN Chunks(t) = 1..Len(Chunks(t))
      /\ Len(Chunks(t)') = Len(Chunks(t)) + 1
      /\ DOMAIN Chunks(t)' = 1..(Len(Chunks(t)) + 1)
      /\ Chunks(t)'[Len(Chunks(t)) + 1] = c
      /\ \A i \in DOMAIN Chunks(t) : Chunks(t)'[i] = Chunks(t)[i]
  BY <1>1, <1>2, AppendProperties, LenProperties
<1>4. Logged(t)' = Logged(t)
  <2>1. Entries(Append(Chunks(t), c)) = Entries(Chunks(t)) \o c.entries
    BY <1>1, EntriesOf
  <2>2. Logged(t)' = (Entries(Chunks(t)) \o buffer[t]) \o <<>>
    BY <1>2, <2>1 DEF Logged, Entries
  <2>3. Logged(t) = Entries(Chunks(t)) \o buffer[t]
    BY DEF Logged, Unwritten, Ending
  <2> QED
    BY <2>2, <2>3, LoggedType, ConcatEmptySeq
<1> QED
  BY <1>2, <1>3, <1>4

(***************************************************************************)
(* When the next epoch starts, the buffer becomes the chunk of the last    *)
(* one.                                                                    *)
(***************************************************************************)
LEMMA LogWriteChunk ==
  ASSUME StateInv, HistInv, LockInv, NoWrap, NEW t \in Thread, LogOf(t), WriteChunk(t)
  PROVE  LogOf(t)'
<1> DEFINE k == Chunk(lastEpoch[t], buffer[t])
           n == Len(Chunks(t)) + 1
<1>1. /\ txn[t].pc = "log" /\ txn'[t].pc = "sync" /\ txn'[t].ts = txn[t].ts
      /\ txn'[t].epoch = txn[t].epoch
      /\ lastEpoch'[t] = txn[t].epoch /\ txn[t].epoch = lastEpoch[t] + 1
      /\ buffer'[t] = <<>> /\ pending'[t] = <<k>>
      /\ UNCHANGED <<left, file, commits>>
  BY DEF WriteChunk, NextEpoch, StateInv, TypeInv, TxnType
<1>2. /\ left[t] > 0 /\ pending[t] = <<>> /\ txn[t].epoch \in 1..epoch /\ epoch \in Nat
      /\ lastEpoch[t] \in {CleanedUp} \cup 1..epoch /\ buffer[t] \in Seq(Nat)
  <2>1. epoch \in Nat /\ lastEpoch[t] \in {CleanedUp} \cup 1..epoch /\ buffer[t] \in Seq(Nat)
    BY DEF StateInv, TypeInv
  <2>2. left[t] > 0 /\ pending[t] = <<>> /\ txn[t].epoch \in 1..epoch
    BY <1>1 DEF StateInv, PcInv, PcOf
  <2> QED
    BY <2>1, <2>2
<1>3. ~Ending(t) /\ ~Ending(t)'
  BY <1>1, <1>2 DEF Ending, Closed
<1>4. lastEpoch[t] \in Nat /\ lastEpoch[t] # CleanedUp /\ txn[t].epoch \in Nat
  BY <1>1, <1>2 DEF CleanedUp
<1>5. k \in ChunkType /\ k.epoch = lastEpoch[t] /\ k.entries = buffer[t] /\ k.whole
  BY <1>2, <1>4 DEF Chunk, ChunkType
<1>6. Unwritten(t)' = <<>>
  BY <1>1 DEF Unwritten
<1> HIDE DEF k
<1>7. /\ Len(Chunks(t)) \in Nat /\ DOMAIN Chunks(t) = 1..Len(Chunks(t))
      /\ Len(Chunks(t)') = n /\ DOMAIN Chunks(t)' = 1..n /\ Chunks(t)'[n] = k
      /\ \A i \in DOMAIN Chunks(t) : Chunks(t)'[i] = Chunks(t)[i]
      /\ Logged(t)' = Logged(t)
  BY <1>1, <1>2, <1>3, <1>5, <1>6, ChunkAppended
<1> HIDE DEF n
<1>8. n \in Nat /\ 1..n = DOMAIN Chunks(t) \cup {n} /\ \A i \in DOMAIN Chunks(t) : i < n /\ i \in Nat
  BY <1>7 DEF n
<1>9. \A i \in DOMAIN Chunks(t) :
        /\ Chunks(t)[i].epoch # CleanedUp /\ Chunks(t)[i].epoch \in Nat
        /\ Chunks(t)[i].epoch < lastEpoch[t]
        /\ \A j \in DOMAIN Chunks(t) : j < i => Chunks(t)[j].epoch < Chunks(t)[i].epoch
        /\ ToSet(Chunks(t)[i].entries) = ByEpoch(t, Chunks(t)[i].epoch)
  BY <1>3, LoggedType DEF LogOf, ChunksOf, ChunkEpoch
<1>10. ToSet(buffer[t]) = ByEpoch(t, lastEpoch[t])
  <2>1. ToSet(buffer[t]) = ByEpoch(t, lastEpoch[t]) \ {txn[t].ts}
    BY DEF LogOf
  <2>2. \A c \in ToSet(commits) : c.thread = t /\ c.ts = txn[t].ts => c.epoch = txn[t].epoch
    BY <1>1, CommitLogged
  <2>3. txn[t].ts \notin ByEpoch(t, lastEpoch[t])
    BY <1>1, <1>4, <2>2 DEF ByEpoch
  <2> QED
    BY <2>1, <2>3
<1>11. \A e : ByEpoch(t, e)' = ByEpoch(t, e)
  BY <1>1 DEF ByEpoch
<1>12. \A c \in ToSet(commits) : c.thread = t /\ c.ts # txn[t].ts =>
         c.epoch = lastEpoch[t] \/ \E i \in DOMAIN Chunks(t) : Chunks(t)[i].epoch = c.epoch
  BY DEF LogOf, Covered
<1>13. ToSet(buffer[t])' = (ByEpoch(t, lastEpoch[t]) \ {txn[t].ts})'
  <2>1. ASSUME NEW c \in ToSet(commits), c.thread = t, c.epoch = txn[t].epoch
        PROVE  c.ts = txn[t].ts
    BY <1>1, <1>4, <1>9, <1>12, <2>1
  <2>2. ByEpoch(t, txn[t].epoch) \subseteq {txn[t].ts}
    BY <2>1 DEF ByEpoch
  <2>3. ToSet(<<>>) = {}
    BY DEF ToSet
  <2> QED
    BY <1>1, <1>11, <2>2, <2>3
<1>14. ChunksOf(t, Chunks(t))'
  <2> SUFFICES ASSUME NEW i \in 1..n
               PROVE  /\ Chunks(t)'[i].epoch # CleanedUp
                      /\ Chunks(t)'[i].epoch < lastEpoch'[t]
                      /\ \A j \in 1..n : j < i => Chunks(t)'[j].epoch < Chunks(t)'[i].epoch
                      /\ ToSet(Chunks(t)'[i].entries) = ByEpoch(t, Chunks(t)'[i].epoch)
    BY <1>7, <1>11 DEF ChunksOf, ChunkEpoch
  <2>1. CASE i \in DOMAIN Chunks(t)
    <3>1. \A j \in 1..n : j < i => j \in DOMAIN Chunks(t)
      BY <1>8, <2>1
    <3>2. Chunks(t)'[i] = Chunks(t)[i] /\ \A j \in 1..n : j < i => Chunks(t)'[j] = Chunks(t)[j]
      BY <1>7, <2>1, <3>1
    <3>3. /\ Chunks(t)[i].epoch \in Nat /\ Chunks(t)[i].epoch < lastEpoch[t]
          /\ Chunks(t)[i].epoch # CleanedUp
          /\ ToSet(Chunks(t)[i].entries) = ByEpoch(t, Chunks(t)[i].epoch)
      BY <1>9, <2>1
    <3>4. \A j \in 1..n : j < i => Chunks(t)[j].epoch < Chunks(t)[i].epoch
      BY <1>9, <2>1, <3>1
    <3>5. Chunks(t)[i].epoch < lastEpoch'[t]
      BY <1>1, <1>4, <3>3
    <3> QED
      BY <3>2, <3>3, <3>4, <3>5
  <2>2. CASE i = n
    <3>1. \A j \in 1..n : j < i => j \in DOMAIN Chunks(t)
      BY <1>8, <2>2
    <3> QED
      BY <1>1, <1>4, <1>5, <1>7, <1>9, <1>10, <2>2, <3>1
  <2> QED
    BY <1>8, <2>1, <2>2
<1>15. \A c \in ToSet(commits)' : c.thread = t /\ c.ts # txn'[t].ts => Covered(c, Chunks(t))'
  BY <1>1, <1>5, <1>7, <1>8, <1>12 DEF Covered
<1>16. Ascends(Logged(t))'
  BY <1>7 DEF LogOf, Ascends
<1>17. \A i \in DOMAIN Chunks(t)' : Chunks(t)'[i].whole /\ Chunks(t)'[i].epoch # CleanedUp
  <2>1. \A i \in DOMAIN Chunks(t) : Chunks(t)[i].whole
    BY DEF LogOf
  <2> QED
    BY <1>4, <1>5, <1>7, <1>8, <1>9, <2>1
<1> QED
  BY <1>1, <1>3, <1>13, <1>14, <1>15, <1>16, <1>17 DEF LogOf

(***************************************************************************)
(* At the end, what is left in the buffer becomes the chunk of CleanUp.    *)
(***************************************************************************)
LEMMA LogCleanUp ==
  ASSUME StateInv, HistInv, NoWrap, NEW t \in Thread, LogOf(t), CleanUp(t)
  PROVE  LogOf(t)'
<1> DEFINE k == Chunk(CleanedUp, buffer[t])
           n == Len(Chunks(t)) + 1
<1>1. /\ txn[t] = NoTxn /\ txn[t].pc = "idle" /\ txn[t].ts = 0 /\ left[t] # Closed
      /\ txn'[t].pc = "cleanup" /\ txn'[t].ts = 0
      /\ pending[t] = <<>> /\ pending'[t] = <<k>>
      /\ UNCHANGED <<left, buffer, lastEpoch, file, commits>>
  <2>1. /\ txn[t].pc = "idle" /\ left[t] # Closed
        /\ txn' = [txn EXCEPT ![t].pc = "cleanup"]
        /\ pending' = [pending EXCEPT ![t] = <<k>>]
        /\ UNCHANGED <<left, buffer, lastEpoch, file, commits>>
    BY DEF CleanUp
  <2>2. txn[t] = NoTxn /\ pending[t] = <<>>
    BY <2>1 DEF StateInv, PcInv, PcOf
  <2>3. NoTxn.ts = 0 /\ [NoTxn EXCEPT !.pc = "cleanup"].pc = "cleanup"
        /\ [NoTxn EXCEPT !.pc = "cleanup"].ts = 0
    BY DEF NoTxn
  <2>4. txn'[t] = [NoTxn EXCEPT !.pc = "cleanup"] /\ pending'[t] = <<k>>
    BY <2>1, <2>2 DEF StateInv, TypeInv
  <2> QED
    BY <2>1, <2>2, <2>3, <2>4
<1>2. ~Ending(t) /\ Ending(t)' /\ Unwritten(t)' = <<>>
  BY <1>1 DEF Ending, Unwritten
<1>3. k \in ChunkType /\ k.epoch = CleanedUp /\ k.entries = buffer[t] /\ k.whole
  BY DEF Chunk, ChunkType, StateInv, TypeInv
<1> HIDE DEF k
<1>4. /\ Len(Chunks(t)) \in Nat /\ DOMAIN Chunks(t) = 1..Len(Chunks(t))
      /\ Len(Chunks(t)') = n /\ DOMAIN Chunks(t)' = 1..n /\ Chunks(t)'[n] = k
      /\ \A i \in DOMAIN Chunks(t) : Chunks(t)'[i] = Chunks(t)[i]
      /\ Logged(t)' = Logged(t)
  BY <1>1, <1>2, <1>3, ChunkAppended
<1> HIDE DEF n
<1>5. n \in Nat /\ 1..n = DOMAIN Chunks(t) \cup {n} /\ \A i \in DOMAIN Chunks(t) : i < n /\ i \in Nat
  BY <1>4 DEF n
<1>6. \A i \in DOMAIN Chunks(t) :
        /\ Chunks(t)[i].epoch # CleanedUp
        /\ Chunks(t)[i].epoch < lastEpoch[t]
        /\ \A j \in DOMAIN Chunks(t) : j < i => Chunks(t)[j].epoch < Chunks(t)[i].epoch
        /\ ToSet(Chunks(t)[i].entries) = ByEpoch(t, Chunks(t)[i].epoch)
  BY <1>2 DEF LogOf, ChunksOf, ChunkEpoch
<1>7. ToSet(buffer[t]) = ByEpoch(t, lastEpoch[t]) \ {txn[t].ts}
  BY DEF LogOf
<1>8. ToSet(buffer[t]) = ByEpoch(t, lastEpoch[t])
  BY <1>1, <1>7, ByEpochType
<1>9. \A e : ByEpoch(t, e)' = ByEpoch(t, e)
  BY <1>1 DEF ByEpoch
<1>10. \A e : ChunkEpoch(t, e)' = ChunkEpoch(t, e)
  BY <1>1 DEF ChunkEpoch
<1>11. ChunksOf(t, Chunks(t))'
  <2> SUFFICES ASSUME NEW i \in 1..n
               PROVE  /\ Chunks(t)'[i].epoch = CleanedUp => i = n
                      /\ Chunks(t)'[i].epoch # CleanedUp =>
                           /\ Chunks(t)'[i].epoch < lastEpoch[t]
                           /\ \A j \in 1..n : j < i => Chunks(t)'[j].epoch < Chunks(t)'[i].epoch
                      /\ ToSet(Chunks(t)'[i].entries) = ByEpoch(t, ChunkEpoch(t, Chunks(t)'[i]))
    BY <1>1, <1>4, <1>9, <1>10 DEF ChunksOf
  <2>1. CASE i \in DOMAIN Chunks(t)
    <3>1. \A j \in 1..n : j < i => j \in DOMAIN Chunks(t)
      BY <1>5, <2>1
    <3>2. Chunks(t)'[i] = Chunks(t)[i] /\ ChunkEpoch(t, Chunks(t)[i]) = Chunks(t)[i].epoch
      BY <1>4, <1>6, <2>1 DEF ChunkEpoch
    <3> QED
      BY <1>4, <1>6, <2>1, <3>1, <3>2
  <2>2. CASE i = n
    BY <1>3, <1>4, <1>8, <2>2 DEF ChunkEpoch
  <2> QED
    BY <1>5, <2>1, <2>2
<1>12. \A c \in ToSet(commits)' : c.thread = t /\ c.ts # txn'[t].ts => Covered(c, Chunks(t))'
  BY <1>1, <1>4, <1>5 DEF Covered, LogOf
<1>13. Ascends(Logged(t))'
  BY <1>4 DEF LogOf, Ascends
<1>14. \A i \in DOMAIN Chunks(t)' : Chunks(t)'[i].whole
  <2>1. \A i \in DOMAIN Chunks(t) : Chunks(t)[i].whole
    BY DEF LogOf
  <2> QED
    BY <1>3, <1>4, <1>5, <2>1
<1>15. \E i \in DOMAIN Chunks(t)' : Chunks(t)'[i].epoch = CleanedUp
  BY <1>3, <1>4, <1>5
<1>16. ToSet(buffer[t])' = (ByEpoch(t, lastEpoch[t]) \ {txn[t].ts})'
  BY <1>1, <1>7, <1>9
<1> QED
  BY <1>1, <1>2, <1>11, <1>12, <1>13, <1>14, <1>15, <1>16 DEF LogOf

(***************************************************************************)
(* Syncing it moves it to the file; the sequence of chunks stays.          *)
(***************************************************************************)
LEMMA LogSyncCleanUp ==
  ASSUME StateInv, NEW t \in Thread, LogOf(t), SyncCleanUp(t)
  PROVE  LogOf(t)'
<1>1. /\ txn[t].pc = "cleanup" /\ txn[t].ts = 0
      /\ txn'[t] = NoTxn /\ left'[t] = Closed
      /\ file'[t] = file[t] \o pending[t] /\ pending'[t] = <<>>
      /\ UNCHANGED <<buffer, lastEpoch, commits>>
  BY DEF SyncCleanUp, StateInv, TypeInv, PcInv, PcOf, NoTxn
<1>2. Ending(t) /\ Ending(t)' /\ Unwritten(t) = <<>> /\ Unwritten(t)' = <<>>
      /\ txn'[t].ts = 0 /\ txn'[t].pc = "idle"
  BY <1>1 DEF Ending, Unwritten, NoTxn
<1>3. Chunks(t)' = Chunks(t)
  <2>1. file[t] \o pending[t] \in Seq(ChunkType)
    BY ConcatProperties DEF StateInv, TypeInv
  <2> QED
    BY <1>1, <2>1, ConcatEmptySeq DEF Chunks
<1>4. Logged(t)' = Logged(t)
  BY <1>2, <1>3 DEF Logged, Entries
<1>5. \A e : ByEpoch(t, e)' = ByEpoch(t, e)
  BY <1>1 DEF ByEpoch
<1>6. \A k : ChunkEpoch(t, k)' = ChunkEpoch(t, k)
  BY <1>1 DEF ChunkEpoch
<1>7. ChunksOf(t, Chunks(t))'
  BY <1>1, <1>3, <1>5, <1>6 DEF LogOf, ChunksOf
<1>8. \A c \in ToSet(commits)' : c.thread = t /\ c.ts # txn'[t].ts => Covered(c, Chunks(t))'
  BY <1>1, <1>2, <1>3 DEF LogOf, Covered
<1>9. ToSet(buffer[t])' = (ByEpoch(t, lastEpoch[t]) \ {txn[t].ts})'
  BY <1>1, <1>2, <1>5 DEF LogOf
<1>10. Ascends(Logged(t))'
  BY <1>4 DEF LogOf, Ascends
<1>11. \A i \in DOMAIN Chunks(t)' : Chunks(t)'[i].whole
  BY <1>3 DEF LogOf
<1>12. Ending(t)' <=> \E i \in DOMAIN Chunks(t)' : Chunks(t)'[i].epoch = CleanedUp
  BY <1>2, <1>3 DEF LogOf
<1> QED
  BY <1>2, <1>7, <1>8, <1>9, <1>10, <1>11, <1>12 DEF LogOf

(***************************************************************************)
(* No step of a thread disturbs its own log or that of another.            *)
(***************************************************************************)
LEMMA LogRun ==
  ASSUME StateInv, HistInv, LockInv, LogInv, NoWrap, NoWrap', NEW t \in Thread, Run(t)
  PROVE  LogInv'
<1>1. phase = "run" /\ phase' = "run"
  BY DEF Run, GetEpoch, Install, AppendEntry, WriteChunk, Sync, CleanUp, SyncCleanUp
<1>2. \A u \in Thread : LogOf(u)
  BY <1>1 DEF LogInv
<1>3. \A c : \A u \in Thread : c.thread = u /\ u # t =>
        (c \in ToSet(commits)' <=> c \in ToSet(commits))
  <2>1. CASE Install(t)
    <3>1. PICK d : IsNew(d, t)
      BY <2>1, Installed
    <3> QED
      BY <3>1 DEF IsNew
  <2>2. CASE ~Install(t)
    BY <2>2 DEF Run, GetEpoch, AppendEntry, WriteChunk, Sync, CleanUp, SyncCleanUp
  <2> QED
    BY <2>1, <2>2
<1>4. \A u \in Thread : u # t =>
        /\ txn'[u] = txn[u] /\ left'[u] = left[u] /\ buffer'[u] = buffer[u]
        /\ lastEpoch'[u] = lastEpoch[u] /\ pending'[u] = pending[u] /\ file'[u] = file[u]
  BY DEF Run, GetEpoch, Install, AppendEntry, WriteChunk, Sync, CleanUp, SyncCleanUp,
         LogAndRelease, log, StateInv, TypeInv
<1>5. \A u \in Thread : u # t => LogOf(u)'
  BY <1>2, <1>3, <1>4, LogOfOthers
<1>6. LogOf(t)'
  <2>1. CASE AppendEntry(t) \/ Sync(t)
    <3>1. /\ txn[t].pc \in {"log", "sync"} /\ commits' = commits
          /\ buffer'[t] = Append(buffer[t], txn[t].ts) /\ txn'[t] = NoTxn
          /\ left'[t] \in {0, left[t] - 1}
      BY <2>1 DEF AppendEntry, Sync, LogAndRelease, StateInv, TypeInv
    <3>2. left[t] > 0 /\ left[t] \in Closed..Batch
      BY <3>1 DEF StateInv, TypeInv, PcInv, PcOf
    <3>3. left'[t] # Closed
      BY <3>1, <3>2 DEF Closed
    <3>4. lastEpoch[t] \in {CleanedUp, txn[t].epoch} /\ lastEpoch'[t] = txn[t].epoch
      <4>1. CASE AppendEntry(t)
        BY <4>1 DEF AppendEntry, SameEpoch, IsFirst, StateInv, TypeInv
      <4>2. CASE Sync(t)
        BY <1>2, <4>2 DEF Sync, LogOf
      <4> QED
        BY <2>1, <4>1, <4>2
    <3>5. Chunks(t)' = Chunks(t)
      <4>1. CASE AppendEntry(t)
        BY <4>1 DEF AppendEntry, Chunks
      <4>2. CASE Sync(t)
        <5>1. file'[t] = file[t] \o pending[t] /\ pending'[t] = <<>>
          BY <4>2 DEF Sync, StateInv, TypeInv
        <5>2. file[t] \o pending[t] \in Seq(ChunkType)
          BY ConcatProperties DEF StateInv, TypeInv
        <5> QED
          BY <5>1, <5>2, ConcatEmptySeq DEF Chunks
      <4> QED
        BY <2>1, <4>1, <4>2
    <3> QED
      BY <1>2, <3>1, <3>3, <3>4, <3>5, LogEntry
  <2>2. CASE \E p \in Procedures : GetEpoch(t, p)
    BY <1>2, <2>2, LogGetEpoch
  <2>3. CASE Install(t)
    BY <1>2, <2>3, LogInstall
  <2>4. CASE WriteChunk(t)
    BY <1>2, <2>4, LogWriteChunk
  <2>5. CASE CleanUp(t)
    BY <1>2, <2>5, LogCleanUp
  <2>6. CASE SyncCleanUp(t)
    BY <1>2, <2>6, LogSyncCleanUp
  <2> QED
    BY <2>1, <2>2, <2>3, <2>4, <2>5, <2>6 DEF Run
<1> QED
  BY <1>5, <1>6 DEF LogInv

(***************************************************************************)
(* The counter only grows, so that it has not wrapped before.              *)
(***************************************************************************)
LEMMA WrapNext ==
  ASSUME StateInv, [Next]_vars, NoWrap'
  PROVE  NoWrap
<1>1. monotone \in Nat /\ TsSpan \in Nat
  BY LenProperties, RecoveryConstants DEF StateInv, TypeInv
<1>2. monotone' \in {monotone, monotone + 1}
  BY DEF Next, Run, GetEpoch, Install, AppendEntry, WriteChunk, Sync, CleanUp, SyncCleanUp,
         ReplayValue, NextBatch, ReplayCommand, AdvanceEpoch, Crash, Exit, StartReplay,
         Ended, vars
<1> QED
  BY <1>1, <1>2 DEF NoWrap

(***************************************************************************)
(* Every step keeps the locks, the history and the logs.                   *)
(***************************************************************************)
LEMMA RunNext ==
  ASSUME StateInv, RunInv, [Next]_vars, NoWrap'
  PROVE  RunInv'
<1>1. NoWrap
  BY WrapNext
<1>2. HistInv' /\ LockInv'
  BY LockNext DEF RunInv
<1>3. LogInv'
  <2>1. CASE \E t \in Thread : Run(t)
    BY <1>1, <2>1, LogRun DEF RunInv
  <2>2. CASE AdvanceEpoch \/ UNCHANGED vars
    <3>1. phase' = phase /\ UNCHANGED <<txn, left, log, commits>>
      BY <2>2 DEF AdvanceEpoch, vars
    <3>2. \A t \in Thread : LogOf(t) => LogOf(t)'
      BY <3>1, LogOfOthers DEF log
    <3> QED
      BY <3>1, <3>2 DEF RunInv, LogInv
  <2>3. CASE phase' # "run"
    BY <2>3 DEF LogInv
  <2>4. \/ \E t \in Thread : Run(t)
        \/ AdvanceEpoch \/ UNCHANGED vars
        \/ phase' # "run"
    BY DEF Next, Ended, ReplayValue, NextBatch, ReplayCommand, Crash, Exit, StartReplay
  <2> QED
    BY <2>1, <2>2, <2>3, <2>4
<1>4. Untouched'
  <2>1. CASE \/ \E t \in Thread : Run(t)
             \/ AdvanceEpoch \/ UNCHANGED vars
    <3>1. UNCHANGED <<phase, exited, todo, recovered, stamp, diverged>>
      BY <2>1 DEF Run, GetEpoch, Install, AppendEntry, WriteChunk, Sync, CleanUp, SyncCleanUp,
                  AdvanceEpoch, vars, replay
    <3> QED
      BY <3>1 DEF RunInv, Untouched
  <2>2. CASE Crash \/ Exit
    BY <2>2 DEF Crash, Exit, StartReplay, RunInv, Untouched
  <2>3. CASE ReplayCommand \/ \E t \in Thread : ReplayValue(t) \/ NextBatch(t)
    <3>1. CASE phase = "replay"
      BY <2>3, <3>1 DEF ReplayCommand, ReplayValue, NextBatch, Untouched
    <3>2. CASE phase # "replay"
      BY <2>3, <3>2 DEF ReplayCommand, ReplayValue, NextBatch
    <3> QED
      BY <3>1, <3>2
  <2> QED
    BY <2>1, <2>2, <2>3 DEF Next, Ended
<1> QED
  BY <1>2, <1>3, <1>4 DEF RunInv

(***************************************************************************)
(* They hold initially: there is nothing yet.                              *)
(***************************************************************************)
LEMMA RunInit == Init => RunInv
<1> SUFFICES ASSUME Init PROVE RunInv
  OBVIOUS
<1> USE DEF Init
<1>1. DOMAIN commits = {} /\ ToSet(commits) = {}
  BY DEF ToSet
<1>2. HistInv
  BY <1>1 DEF HistInv, HistOf, IsLast, Updates
<1>3. LockInv
  <2>1. \A t \in Thread : /\ txn[t].writes = {} /\ txn[t].pc = "idle"
                          /\ DOMAIN txn[t].saw = {}
    BY DEF NoTxn
  <2> QED
    BY <2>1 DEF LockInv, Exclusive
<1>4. LogInv
  <2> SUFFICES ASSUME NEW t \in Thread PROVE LogOf(t)
    BY DEF LogInv
  <2>1. /\ txn[t].pc = "idle" /\ left[t] = Batch /\ buffer[t] = <<>>
        /\ file[t] = <<>> /\ pending[t] = <<>>
    BY DEF NoTxn
  <2>2. <<>> \in Seq(ChunkType) /\ <<>> \in Seq(Nat)
    OBVIOUS
  <2>3. Chunks(t) = <<>> /\ DOMAIN Chunks(t) = {}
    BY <2>1, <2>2, ConcatEmptySeq DEF Chunks
  <2>4. ~Ending(t)
    BY <2>1, RecoveryConstants DEF Ending, Closed
  <2>5. Entries(Chunks(t)) = <<>>
    <3>1. [i \in DOMAIN <<>> |-> <<>>[i].entries] = <<>>
      OBVIOUS
    <3> QED
      BY <2>3, <3>1, FlattenEmpty DEF Entries
  <2>6. Logged(t) = <<>>
    BY <2>1, <2>2, <2>5, ConcatEmptySeq DEF Logged, Unwritten
  <2>7. Ascends(Logged(t)) /\ ToSet(buffer[t]) = {}
    BY <2>1, <2>6 DEF Ascends, ToSet
  <2> QED
    BY <1>1, <2>1, <2>3, <2>4, <2>7 DEF LogOf, ChunksOf, ByEpoch
<1>5. Untouched
  BY DEF Untouched
<1> QED
  BY <1>2, <1>3, <1>4, <1>5 DEF RunInv

(***************************************************************************)
(* A timestamp belongs to one commit, so to one epoch.                     *)
(***************************************************************************)
LEMMA CommitUnique ==
  ASSUME StateInv, HistInv, NoWrap, NEW t \in Thread, NEW e, NEW x \in ByEpoch(t, e)
  PROVE  Commit(x).epoch = e
<1>1. PICK c \in ToSet(commits) : x = c.ts /\ c.epoch = e
  BY DEF ByEpoch
<1>2. Commit(x) \in ToSet(commits) /\ Commit(x).ts = x
  BY <1>1, CommitOf DEF Stamps
<1> QED
  BY <1>1, <1>2, CommitOrder

(***************************************************************************)
(* The log is complete, as LogComplete says it.                            *)
(***************************************************************************)
LEMMA LogIsComplete ==
  ASSUME StateInv, RunInv, NoWrap
  PROVE  LogComplete
<1> SUFFICES ASSUME phase = "run", NEW t \in Thread
             PROVE  /\ ToSet(Logged(t)) = Returned(t) /\ Ascends(Logged(t))
                    /\ \A x \in ToSet(buffer[t]) : Commit(x).epoch = lastEpoch[t]
                    /\ \A i \in DOMAIN Chunks(t) : Chunks(t)[i].epoch # CleanedUp =>
                         \A x \in ToSet(Chunks(t)[i].entries) :
                           Commit(x).epoch = Chunks(t)[i].epoch
  BY DEF LogComplete, Logged, Chunks
<1>1. LogOf(t)
  BY DEF RunInv, LogInv
<1>2. ToSet(Logged(t)) = Returned(t) /\ Ascends(Logged(t))
  BY <1>1, LoggedIsReturned DEF RunInv, LogOf
<1>3. ToSet(buffer[t]) \subseteq ByEpoch(t, lastEpoch[t])
  BY <1>1 DEF LogOf
<1>4. \A i \in DOMAIN Chunks(t) : Chunks(t)[i].epoch # CleanedUp =>
        ToSet(Chunks(t)[i].entries) = ByEpoch(t, Chunks(t)[i].epoch)
  BY <1>1 DEF LogOf, ChunksOf, ChunkEpoch
<1>5. \A e : \A x \in ByEpoch(t, e) : Commit(x).epoch = e
  BY CommitUnique DEF RunInv
<1> QED
  BY <1>2, <1>3, <1>4, <1>5

(***************************************************************************)
(* The file of a thread, with the chunk that was pending or without it,    *)
(* holds the epochs of the thread without a gap.                           *)
(***************************************************************************)
LEMMA GaplessFile ==
  ASSUME StateInv, RunInv, NoWrap, phase = "run", NEW t \in Thread,
         NEW f \in {file[t], Chunks(t)}
  PROVE  ChunksOf(t, f) /\ Gapless(t, f)
<1>1. LogOf(t)
  BY DEF RunInv, LogInv
<1> DEFINE g == Chunks(t)
           n == Len(f)
<1>2. /\ g \in Seq(ChunkType) /\ Len(g) \in Nat /\ DOMAIN g = 1..Len(g)
      /\ \A i \in DOMAIN g : g[i].epoch \in {CleanedUp} \cup Nat
  BY LoggedType, LenProperties
<1>3. /\ f \in Seq(ChunkType) /\ n \in Nat /\ DOMAIN f = 1..n
      /\ n <= Len(g) /\ \A i \in 1..n : f[i] = g[i]
  <2>1. CASE f = g
    BY <1>2, <2>1
  <2>2. CASE f = file[t]
    <3>1. /\ f \in Seq(ChunkType) /\ pending[t] \in Seq(ChunkType)
          /\ g = f \o pending[t]
      BY <2>2 DEF StateInv, TypeInv, Chunks
    <3>2. /\ Len(g) = Len(f) + Len(pending[t])
          /\ \A i \in 1..(Len(f) + Len(pending[t])) :
               g[i] = IF i <= Len(f) THEN f[i] ELSE pending[t][i - Len(f)]
      BY <3>1, ConcatProperties
    <3>3. Len(f) \in Nat /\ Len(pending[t]) \in Nat /\ DOMAIN f = 1..Len(f)
      BY <3>1, LenProperties
    <3>4. /\ \A i \in 1..Len(f) : i \in 1..(Len(f) + Len(pending[t])) /\ i <= Len(f)
          /\ Len(f) <= Len(f) + Len(pending[t])
      BY <3>3
    <3>5. \A i \in 1..Len(f) : f[i] = g[i]
      BY <3>2, <3>4
    <3>6. Len(f) <= Len(g)
      BY <3>2, <3>4
    <3> HIDE DEF g
    <3> QED
      BY <3>1, <3>3, <3>5, <3>6
  <2> QED
    BY <2>1, <2>2
<1> HIDE DEF g, n
<1>4. /\ ChunksOf(t, g)
      /\ \A c \in ToSet(commits) : c.thread = t /\ c.ts # txn[t].ts => Covered(c, g)
  BY <1>1 DEF LogOf, g
<1>5. \A i \in 1..n : i \in DOMAIN g /\ i \in Nat /\ i <= n
  BY <1>2, <1>3
<1>6. ChunksOf(t, f)
  <2> SUFFICES ASSUME NEW i \in 1..n
               PROVE  /\ f[i].epoch = CleanedUp => i = n
                      /\ f[i].epoch # CleanedUp =>
                           /\ f[i].epoch < lastEpoch[t]
                           /\ \A j \in 1..n : j < i => f[j].epoch < f[i].epoch
                      /\ ToSet(f[i].entries) = ByEpoch(t, ChunkEpoch(t, f[i]))
    BY <1>3 DEF ChunksOf, n
  <2>1. /\ g[i].epoch = CleanedUp => i = Len(g)
        /\ g[i].epoch # CleanedUp =>
             /\ g[i].epoch < lastEpoch[t]
             /\ \A j \in DOMAIN g : j < i => g[j].epoch < g[i].epoch
        /\ ToSet(g[i].entries) = ByEpoch(t, ChunkEpoch(t, g[i]))
    BY <1>4, <1>5 DEF ChunksOf
  <2>2. g[i].epoch = CleanedUp => i = n
    BY <1>2, <1>3, <1>5, <2>1
  <2> QED
    BY <1>3, <1>5, <2>1, <2>2
<1>7. ASSUME NEW c \in ToSet(commits), NEW i \in DOMAIN f, c.thread = t,
             c.epoch <= f[i].epoch
      PROVE  \E j \in DOMAIN f : f[j].epoch = c.epoch
  <2>1. c.epoch \in 1..epoch /\ c.epoch \in Nat /\ epoch \in Nat /\ c.ts > 0 /\ c.ts \in Nat
    <3>1. epoch \in Nat
      BY DEF StateInv, TypeInv
    <3>2. c.epoch \in 1..epoch /\ c.epoch \in Nat /\ c.ts > 0 /\ c.ts \in Nat
      BY CommitOrder DEF RunInv
    <3> QED
      BY <3>1, <3>2
  <2>2. i \in 1..n /\ i \in DOMAIN g /\ f[i] = g[i] /\ g[i].epoch \in {CleanedUp} \cup Nat
    BY <1>2, <1>3, <1>5, <1>7
  <2>3. g[i].epoch # CleanedUp /\ g[i].epoch \in Nat
    BY <1>7, <2>1, <2>2 DEF CleanedUp
  <2>4. g[i].epoch < lastEpoch[t] /\ \A j \in DOMAIN g : j < i => g[j].epoch < g[i].epoch
    BY <1>4, <2>2, <2>3 DEF ChunksOf
  <2>5. lastEpoch[t] \in {CleanedUp} \cup Nat
    BY DEF StateInv, TypeInv
  <2>6. c.epoch < lastEpoch[t]
    BY <1>7, <2>1, <2>2, <2>3, <2>4, <2>5 DEF CleanedUp
  <2>7. c.ts # txn[t].ts
    <3>1. CASE txn[t].pc \in {"log", "sync"}
      <4>1. c.ts = txn[t].ts => c.epoch = txn[t].epoch
        BY <1>7, <3>1, CommitLogged DEF RunInv
      <4>2. txn[t].epoch \in Nat
        BY DEF StateInv, TypeInv, TxnType
      <4>3. lastEpoch[t] <= txn[t].epoch
        <5>1. txn[t].pc = "sync" => lastEpoch[t] = txn[t].epoch
          BY <1>1 DEF LogOf
        <5>2. txn[t].pc = "log" => lastEpoch[t] <= txn[t].epoch
          BY <1>1 DEF LogOf
        <5> QED
          BY <2>5, <3>1, <4>2, <5>1, <5>2 DEF CleanedUp
      <4> QED
        BY <2>1, <2>5, <2>6, <4>1, <4>2, <4>3 DEF CleanedUp
    <3>2. CASE txn[t].pc \notin {"log", "sync"}
      <4>1. txn[t].ts = 0
        BY <3>2 DEF StateInv, TypeInv, TxnType, PcInv, PcOf, NoTxn
      <4> QED
        BY <2>1, <4>1
    <3> QED
      BY <3>1, <3>2
  <2>8. Covered(c, g)
    BY <1>4, <1>7, <2>7
  <2>9. PICK j \in DOMAIN g : g[j].epoch = c.epoch
    BY <1>7, <2>1, <2>5, <2>6, <2>8 DEF Covered
  <2>10. g[j].epoch # CleanedUp /\ g[j].epoch \in Nat
    BY <2>1, <2>9 DEF CleanedUp
  <2>11. i < j => g[i].epoch < g[j].epoch
    BY <1>4, <2>2, <2>10 DEF ChunksOf
  <2>12. ~(i < j)
    BY <1>7, <2>1, <2>2, <2>3, <2>9, <2>10, <2>11
  <2>13. j \in 1..n
    BY <1>2, <1>3, <2>2, <2>12
  <2> QED
    BY <1>3, <2>9, <2>13
<1> QED
  BY <1>6, <1>7 DEF Gapless

(***************************************************************************)
(* What the replay finds in the files: of every thread the first chunks,   *)
(* by epochs and without gaps, and after an exit all of them.              *)
(***************************************************************************)
LEMMA ReplayedFiles ==
  ASSUME StateInv, RunInv, NoWrap, phase = "run", Crash \/ Exit
  PROVE  \E files \in [Thread -> Seq(ChunkType)] :
           /\ StartReplay(files)
           /\ phase' = "replay" => \A t \in Thread :
                /\ ChunksOf(t, files[t]) /\ Gapless(t, files[t])
                /\ exited' =>
                     /\ \E i \in DOMAIN files[t] : files[t][i].epoch = CleanedUp
                     /\ \A c \in ToSet(commits) : c.thread = t => Covered(c, files[t])
<1>1. PICK files \in [Thread -> Seq(ChunkType)] : StartReplay(files) /\ FilesAfter(files)
  BY FilesLeft
<1> SUFFICES ASSUME phase' = "replay", NEW t \in Thread
             PROVE  /\ ChunksOf(t, files[t]) /\ Gapless(t, files[t])
                    /\ exited' =>
                         /\ \E i \in DOMAIN files[t] : files[t][i].epoch = CleanedUp
                         /\ \A c \in ToSet(commits) : c.thread = t => Covered(c, files[t])
  BY <1>1
<1>2. files[t] \in {file[t], Chunks(t)}
  BY <1>1 DEF StartReplay, FilesAfter, Chunks
<1>3. ChunksOf(t, files[t]) /\ Gapless(t, files[t])
  BY <1>2, GaplessFile
<1>4. ASSUME exited'
      PROVE  /\ \E i \in DOMAIN files[t] : files[t][i].epoch = CleanedUp
             /\ \A c \in ToSet(commits) : c.thread = t => Covered(c, files[t])
  <2>1. exited = FALSE
    BY DEF RunInv, Untouched
  <2>2. Exit
    BY <1>4, <2>1 DEF Crash
  <2>3. left[t] = Closed
    BY <2>2 DEF Exit
  <2>4. txn[t] = NoTxn /\ pending[t] = <<>> /\ txn[t].ts = 0 /\ Ending(t)
    BY <2>3 DEF StateInv, PcInv, PcOf, NoTxn, Ending
  <2>5. Chunks(t) = file[t]
    BY <2>4, ConcatEmptySeq DEF Chunks, StateInv, TypeInv
  <2>6. LogOf(t) /\ files[t] = Chunks(t)
    BY <1>2, <2>5 DEF RunInv, LogInv
  <2>7. \A c \in ToSet(commits) : c.ts # 0
    BY CommitOrder DEF RunInv
  <2> QED
    BY <2>4, <2>6, <2>7 DEF LogOf
<1> QED
  BY <1>3, <1>4

(***************************************************************************)
(* So the replay starts with files that have the invariant.                *)
(***************************************************************************)
LEMMA FilesStart ==
  ASSUME StateInv, RunInv, NoWrap, phase = "run", Crash \/ Exit
  PROVE  FileInv'
<1>1. PICK files \in [Thread -> Seq(ChunkType)] :
        /\ StartReplay(files)
        /\ phase' = "replay" => \A t \in Thread :
             /\ ChunksOf(t, files[t]) /\ Gapless(t, files[t])
             /\ exited' =>
                  /\ \E i \in DOMAIN files[t] : files[t][i].epoch = CleanedUp
                  /\ \A c \in ToSet(commits) : c.thread = t => Covered(c, files[t])
  BY ReplayedFiles
<1>2. file' = files /\ UNCHANGED <<lastEpoch, commits>>
  BY <1>1 DEF StartReplay
<1> SUFFICES ASSUME phase' = "replay", NEW t \in Thread PROVE FileOf(t)'
  BY DEF FileInv
<1>3. \A e : ByEpoch(t, e)' = ByEpoch(t, e)
  BY <1>2 DEF ByEpoch
<1>4. \A k : ChunkEpoch(t, k)' = ChunkEpoch(t, k)
  BY <1>2 DEF ChunkEpoch
<1>5. ChunksOf(t, file[t])'
  BY <1>1, <1>2, <1>3, <1>4 DEF ChunksOf
<1>6. Gapless(t, file[t])'
  BY <1>1, <1>2 DEF Gapless
<1> QED
  BY <1>1, <1>2, <1>5, <1>6 DEF FileOf, Covered

(***************************************************************************)
(* Files are only read by the replay.                                      *)
(***************************************************************************)
LEMMA FileKept ==
  ASSUME FileInv, UNCHANGED <<phase, exited, file, lastEpoch, commits>>
  PROVE  FileInv'
<1>1. \A t, e : ByEpoch(t, e)' = ByEpoch(t, e)
  BY DEF ByEpoch
<1>2. \A t, k : ChunkEpoch(t, k)' = ChunkEpoch(t, k)
  BY DEF ChunkEpoch
<1>3. ASSUME NEW t \in Thread, FileOf(t) PROVE FileOf(t)'
  <2>1. ChunksOf(t, file[t])'
    BY <1>1, <1>2, <1>3 DEF FileOf, ChunksOf
  <2>2. Gapless(t, file[t])'
    BY <1>3 DEF FileOf, Gapless
  <2>3. exited' => /\ \E i \in DOMAIN file'[t] : file'[t][i].epoch = CleanedUp
                   /\ \A c \in ToSet(commits)' : c.thread = t => Covered(c, file[t])'
    BY <1>3 DEF FileOf, Covered
  <2> QED
    BY <2>1, <2>2, <2>3 DEF FileOf
<1> QED
  BY <1>3 DEF FileInv

(***************************************************************************)
(* An entry of a file stands for a commit of its thread; after an orderly  *)
(* end every commit has one.                                               *)
(***************************************************************************)
LEMMA FileEntries ==
  ASSUME StateInv, HistInv, NoWrap, NEW t \in Thread, NEW f \in Seq(ChunkType),
         ChunksOf(t, f)
  PROVE  /\ Entries(f) \in Seq(Nat)
         /\ \A x \in ToSet(Entries(f)) :
              Commit(x) \in ToSet(commits) /\ Commit(x).ts = x /\ Commit(x).thread = t
         /\ \A c \in ToSet(commits) :
              /\ c.thread = t /\ Covered(c, f)
              /\ \E i \in DOMAIN f : f[i].epoch = CleanedUp
              => c.ts \in ToSet(Entries(f))
<1>1. /\ Entries(f) \in Seq(Nat)
      /\ \A x : x \in ToSet(Entries(f)) <=>
                  \E i \in DOMAIN f : x \in ToSet(f[i].entries)
  BY EntriesOf
<1>2. \A i \in DOMAIN f : ToSet(f[i].entries) = ByEpoch(t, ChunkEpoch(t, f[i]))
  BY DEF ChunksOf
<1>3. ASSUME NEW x \in ToSet(Entries(f))
      PROVE  Commit(x) \in ToSet(commits) /\ Commit(x).ts = x /\ Commit(x).thread = t
  <2>1. PICK i \in DOMAIN f : x \in ByEpoch(t, ChunkEpoch(t, f[i]))
    BY <1>1, <1>2
  <2>2. PICK c \in ToSet(commits) : c.ts = x /\ c.thread = t
    BY <2>1 DEF ByEpoch
  <2>3. Commit(x) \in ToSet(commits) /\ Commit(x).ts = x
    BY <2>2, CommitOf DEF Stamps
  <2>4. Commit(x) = c
    BY <2>2, <2>3, CommitOrder
  <2> QED
    BY <2>2, <2>3, <2>4
<1>4. ASSUME NEW c \in ToSet(commits), c.thread = t, Covered(c, f),
             NEW j \in DOMAIN f, f[j].epoch = CleanedUp
      PROVE  c.ts \in ToSet(Entries(f))
  <2>1. c.ts \in ByEpoch(t, c.epoch) /\ c.epoch \in Nat
    BY <1>4, CommitOrder DEF ByEpoch
  <2>2. CASE c.epoch = lastEpoch[t]
    <3>1. ChunkEpoch(t, f[j]) = c.epoch
      BY <1>4, <2>2 DEF ChunkEpoch
    <3> QED
      BY <1>1, <1>2, <2>1, <3>1
  <2>3. CASE \E i \in DOMAIN f : f[i].epoch = c.epoch
    <3>1. PICK i \in DOMAIN f : f[i].epoch = c.epoch
      BY <2>3
    <3>2. ChunkEpoch(t, f[i]) = c.epoch
      BY <2>1, <3>1 DEF ChunkEpoch, CleanedUp
    <3> QED
      BY <1>1, <1>2, <2>1, <3>1, <3>2
  <2> QED
    BY <1>4, <2>2, <2>3 DEF Covered
<1> QED
  BY <1>1, <1>3, <1>4

(***************************************************************************)
(* The last of a set of commits is one, and it is what LastOf finds.       *)
(***************************************************************************)
LEMMA LastIsUnique ==
  ASSUME NEW C, \A c \in C : c.ts \in Nat, NEW x, IsLast(x, C)
  PROVE  x = LastOf(C) /\ \A y : IsLast(y, C) => y = x
<1>1. CASE C = {}
  BY <1>1 DEF IsLast, LastOf
<1>2. CASE C # {}
  <2>1. PICK c \in C : c.ts = x /\ \A d \in C : d.ts <= x
    BY <1>2 DEF IsLast
  <2> DEFINE S == {d.ts : d \in C}
  <2>2. S \subseteq Nat /\ x \in S /\ \A y \in S : y <= x
    BY <2>1
  <2>3. Max(S) = x
    <3> HIDE DEF S
    <3> QED
      BY <2>2, Greatest
  <2>4. \A y : IsLast(y, C) => y = x
    BY <1>2, <2>1 DEF IsLast
  <2> QED
    BY <1>2, <2>3, <2>4 DEF LastOf
<1> QED
  BY <1>1, <1>2

-----------------------------------------------------------------------------
(***************************************************************************)
(* The replay of the value log.  At first nothing is recovered and all     *)
(* updates on the disk are still to be done.                               *)
(***************************************************************************)
LEMMA ValueStart ==
  ASSUME StateInv, RunInv, NoWrap, phase = "run", Crash \/ Exit
  PROVE  ValueInv'
<1> SUFFICES ASSUME phase' = "replay", logType' = "VALUE" PROVE ValueInv'
  BY DEF ValueInv
<1>1. PICK files \in [Thread -> Seq(ChunkType)] :
        StartReplay(files) /\ \A t \in Thread : ChunksOf(t, files[t])
  BY ReplayedFiles
<1>2. /\ file' = files /\ UNCHANGED <<commits, recovered, stamp, logType, image>>
      /\ todo' = Todo(files) /\ logType = "VALUE"
  BY <1>1 DEF StartReplay, built
<1>3. \A t \in Thread : todo'[t] = ValueLog(files[t])
  BY <1>2 DEF Todo
<1>4. \A c : OnFile(c)' <=> c.ts \in ToSet(Entries(files[c.thread]))
  BY <1>2 DEF OnFile, Entries
<1>5. \A t \in Thread :
        /\ Entries(files[t]) \in Seq(Nat)
        /\ \A x \in ToSet(Entries(files[t])) :
             Commit(x) \in ToSet(commits) /\ Commit(x).ts = x /\ Commit(x).thread = t
  BY <1>1, FileEntries DEF RunInv
<1>e. \A c, r : Element(c, r)' = Element(c, r)
  BY <1>2 DEF Element, Content
<1>6. \A t \in Thread : \A i \in DOMAIN todo'[t] : \A x \in todo'[t][i] :
        \E c \in Updates(x.record)' : x = Element(c, x.record)' /\ OnFile(c)'
  <2> SUFFICES ASSUME NEW t \in Thread, NEW i \in DOMAIN todo'[t], NEW x \in todo'[t][i]
               PROVE  \E c \in Updates(x.record)' : x = Element(c, x.record)' /\ OnFile(c)'
    OBVIOUS
  <2> DEFINE y == Entries(files[t])[i]
  <2>1. i \in DOMAIN Entries(files[t]) /\ x \in Elements(y)
    BY <1>3 DEF ValueLog
  <2>2. y \in ToSet(Entries(files[t]))
    BY <2>1 DEF ToSet
  <2>3. PICK c \in ToSet(commits) : c = Commit(y) /\ c.ts = y /\ c.thread = t
    BY <1>5, <2>2
  <2>4. OnFile(c)'
    BY <1>4, <2>2, <2>3
  <2>5. x = Element(c, x.record) /\ x.record \in c.wrote
    BY <2>1, <2>3 DEF Elements, Element
  <2>6. c \in Updates(x.record)'
    BY <1>2, <2>3, <2>5 DEF Updates
  <2> QED
    BY <1>e, <2>4, <2>5, <2>6
<1>7. ASSUME NEW r \in Record, NEW c \in Updates(r)', OnFile(c)'
      PROVE  \E i \in DOMAIN todo'[c.thread] : Element(c, r)' \in todo'[c.thread][i]
  <2>1. c \in ToSet(commits) /\ r \in c.wrote /\ c.thread \in Thread
    BY <1>2, <1>7, CommitIsTyped DEF Updates, StateInv
  <2>2. c.ts \in ToSet(Entries(files[c.thread]))
    BY <1>4, <1>7
  <2>3. PICK i \in DOMAIN Entries(files[c.thread]) : Entries(files[c.thread])[i] = c.ts
    BY <2>2 DEF ToSet
  <2>4. Commit(c.ts) = c
    BY <1>5, <2>1, <2>2, CommitOrder DEF RunInv
  <2>5. Element(c, r) \in Elements(c.ts)
    BY <2>1, <2>4 DEF Elements, Element
  <2>6. todo'[c.thread] = [k \in DOMAIN Entries(files[c.thread]) |->
                             Elements(Entries(files[c.thread])[k])]
    BY <1>3, <2>1 DEF ValueLog
  <2>7. i \in DOMAIN todo'[c.thread] /\ todo'[c.thread][i] = Elements(c.ts)
    BY <2>3, <2>6
  <2> QED
    BY <1>e, <2>5, <2>7
<1>8. \A r \in Record : stamp'[r] = 0 /\ recovered'[r] = 0
  BY <1>2 DEF RunInv, Untouched
<1> QED
  BY <1>6, <1>7, <1>8 DEF ValueInv

(***************************************************************************)
(* An update that is replayed is recovered, or a newer one is already.     *)
(***************************************************************************)
LEMMA ValueReplayed ==
  ASSUME StateInv, ValueInv, NEW t \in Thread, ReplayValue(t)
  PROVE  ValueInv'
<1>1. PICK x \in Head(todo[t]) : /\ InstallNewer(x)
                                 /\ todo' = [todo EXCEPT ![t][1] = @ \ {x}]
  BY DEF ReplayValue
<1>2. /\ phase = "replay" /\ logType = "VALUE" /\ todo[t] # <<>>
      /\ UNCHANGED <<phase, logType, image, file, commits>>
  BY DEF ReplayValue, built, log
<1>e. \A c, r : Element(c, r)' = Element(c, r) /\ Content(c, r)' = Content(c, r)
  BY <1>2 DEF Element, Content
<1>3. /\ todo'[t] = [todo[t] EXCEPT ![1] = @ \ {x}]
      /\ \A u \in Thread : u # t => todo'[u] = todo[u]
  BY <1>1 DEF StateInv, TypeInv
<1>4. /\ x \in todo[t][1] /\ 1 \in DOMAIN todo[t] /\ todo[t][1] \subseteq EntryType
      /\ DOMAIN todo'[t] = DOMAIN todo[t] /\ todo'[t][1] = todo[t][1] \ {x}
      /\ \A i \in DOMAIN todo[t] : i # 1 => todo'[t][i] = todo[t][i]
  BY <1>1, <1>2, <1>3, HeadOfTodo DEF StateInv
<1>5. x.ts \in Nat /\ x.record \in Record
  BY <1>2, <1>4 DEF EntryType
<1>6. \A r \in Record : stamp[r] \in Nat
  BY DEF StateInv, TypeInv
<1>7. \A r \in Record :
        IF r = x.record /\ x.ts > stamp[r]
        THEN stamp'[r] = x.ts /\ recovered'[r] = x.content
        ELSE stamp'[r] = stamp[r] /\ recovered'[r] = recovered[r]
  BY <1>1 DEF InstallNewer, StateInv, TypeInv
<1>8. \A r : Updates(r)' = Updates(r)
  BY <1>2 DEF Updates
<1>9. \A c : OnFile(c)' <=> OnFile(c)
  BY <1>2 DEF OnFile, Entries
<1>10. \A u \in Thread : \A i \in DOMAIN todo'[u] : i \in DOMAIN todo[u] /\ todo'[u][i] \subseteq todo[u][i]
  BY <1>3, <1>4
<1>11. \A u \in Thread : \A i \in DOMAIN todo[u] : \A y \in todo[u][i] :
         y = x \/ (i \in DOMAIN todo'[u] /\ y \in todo'[u][i])
  BY <1>3, <1>4
<1>12. /\ \A u \in Thread : \A i \in DOMAIN todo[u] : \A y \in todo[u][i] :
            \E c \in Updates(y.record) : y = Element(c, y.record) /\ OnFile(c)
       /\ \A r \in Record :
            /\ \/ stamp[r] = 0 /\ recovered[r] = 0
               \/ \E c \in Updates(r) : /\ c.ts = stamp[r] /\ OnFile(c)
                                      /\ recovered[r] = Content(c, r)
            /\ \A c \in Updates(r) : OnFile(c) =>
                 \/ c.ts <= stamp[r]
                 \/ \E i \in DOMAIN todo[c.thread] : Element(c, r) \in todo[c.thread][i]
  BY <1>2 DEF ValueInv
<1>13. \A u \in Thread : \A i \in DOMAIN todo'[u] : \A y \in todo'[u][i] :
         \E c \in Updates(y.record)' : y = Element(c, y.record)' /\ OnFile(c)'
  BY <1>e, <1>8, <1>9, <1>10, <1>12
<1>14. ASSUME NEW r \in Record
       PROVE  \/ stamp'[r] = 0 /\ recovered'[r] = 0
              \/ \E c \in Updates(r)' : /\ c.ts = stamp'[r] /\ OnFile(c)'
                                      /\ recovered'[r] = Content(c, r)'
  <2>1. CASE r = x.record /\ stamp'[r] = x.ts /\ recovered'[r] = x.content
    <3>1. PICK c \in Updates(r) : x = Element(c, r) /\ OnFile(c)
      BY <1>4, <1>12, <2>1
    <3>2. x.ts = c.ts /\ x.content = Content(c, r)
      BY <3>1 DEF Element
    <3> QED
      BY <1>e, <1>8, <1>9, <2>1, <3>1, <3>2
  <2>2. CASE stamp'[r] = stamp[r] /\ recovered'[r] = recovered[r]
    BY <1>e, <1>8, <1>9, <1>12, <2>2
  <2> QED
    BY <1>7, <2>1, <2>2
<1>15. ASSUME NEW r \in Record, NEW c \in Updates(r)', OnFile(c)'
       PROVE  \/ c.ts <= stamp'[r]
              \/ \E i \in DOMAIN todo'[c.thread] : Element(c, r)' \in todo'[c.thread][i]
  <2>1. c.ts \in Nat /\ c.thread \in Thread
    BY <1>8, CommitIsTyped DEF Updates, StateInv
  <2>2. stamp'[r] >= stamp[r] /\ (r = x.record => stamp'[r] >= x.ts)
        /\ stamp'[r] \in Nat
    BY <1>5, <1>6, <1>7
  <2>3. CASE c.ts <= stamp[r]
    BY <1>6, <2>1, <2>2, <2>3
  <2>4. CASE \E i \in DOMAIN todo[c.thread] : Element(c, r) \in todo[c.thread][i]
    <3>1. PICK i \in DOMAIN todo[c.thread] : Element(c, r) \in todo[c.thread][i]
      BY <2>4
    <3>2. CASE Element(c, r) = x
      <4>1. x.ts = c.ts /\ x.record = r
        BY <3>2 DEF Element
      <4> QED
        BY <2>1, <2>2, <4>1
    <3>3. CASE Element(c, r) # x
      BY <1>e, <1>11, <2>1, <3>1, <3>3
    <3> QED
      BY <3>2, <3>3
  <2> QED
    BY <1>8, <1>9, <1>12, <1>15, <2>3, <2>4
<1> QED
  BY <1>13, <1>14, <1>15 DEF ValueInv

(***************************************************************************)
(* The next entry of a value log: no element of the last one is left.      *)
(***************************************************************************)
LEMMA ValueNextBatch ==
  ASSUME StateInv, ValueInv, NEW t \in Thread, NextBatch(t)
  PROVE  ValueInv'
<1> SUFFICES ASSUME logType = "VALUE" PROVE ValueInv'
  BY DEF ValueInv, NextBatch, built
<1>1. /\ phase = "replay" /\ todo[t] # <<>> /\ Head(todo[t]) = {}
      /\ todo' = [todo EXCEPT ![t] = Tail(todo[t])]
      /\ UNCHANGED <<phase, logType, image, file, commits, recovered, stamp>>
  BY DEF NextBatch, built, log, StateInv, TypeInv
<1>e. \A c, r : Element(c, r)' = Element(c, r) /\ Content(c, r)' = Content(c, r)
  BY <1>1 DEF Element, Content
<1>2. /\ todo'[t] = Tail(todo[t])
      /\ \A u \in Thread : u # t => todo'[u] = todo[u]
  BY <1>1 DEF StateInv, TypeInv
<1>3. /\ DOMAIN todo[t] = 1..Len(todo[t]) /\ Len(todo[t]) \in Nat /\ todo[t][1] = {}
      /\ DOMAIN todo'[t] = 1..(Len(todo[t]) - 1)
      /\ \A i \in 1..(Len(todo[t]) - 1) : todo'[t][i] = todo[t][i + 1]
  <2>1. /\ DOMAIN todo[t] = 1..Len(todo[t]) /\ Len(todo[t]) \in Nat
        /\ Head(todo[t]) = todo[t][1]
        /\ DOMAIN Tail(todo[t]) = 1..(Len(todo[t]) - 1)
        /\ \A i \in 1..(Len(todo[t]) - 1) : Tail(todo[t])[i] = todo[t][i + 1]
    BY <1>1, HeadOfTodo DEF StateInv
  <2> QED
    BY <1>1, <1>2, <2>1
<1>4. \A r : Updates(r)' = Updates(r)
  BY <1>1 DEF Updates
<1>5. \A c : OnFile(c)' <=> OnFile(c)
  BY <1>1 DEF OnFile, Entries
<1>6. \A u \in Thread : \A i \in DOMAIN todo'[u] : \A y \in todo'[u][i] :
        \E j \in DOMAIN todo[u] : y \in todo[u][j]
  <2> SUFFICES ASSUME NEW i \in DOMAIN todo'[t], NEW y \in todo'[t][i]
               PROVE  \E j \in DOMAIN todo[t] : y \in todo[t][j]
    BY <1>2
  <2>1. i \in 1..(Len(todo[t]) - 1) /\ i + 1 \in 1..Len(todo[t])
    BY <1>3
  <2> QED
    BY <1>3, <2>1
<1>7. \A u \in Thread : \A i \in DOMAIN todo[u] : \A y \in todo[u][i] :
        \E j \in DOMAIN todo'[u] : y \in todo'[u][j]
  <2> SUFFICES ASSUME NEW i \in DOMAIN todo[t], NEW y \in todo[t][i]
               PROVE  \E j \in DOMAIN todo'[t] : y \in todo'[t][j]
    BY <1>2
  <2>1. i # 1
    BY <1>3
  <2>2. i - 1 \in 1..(Len(todo[t]) - 1) /\ (i - 1) + 1 = i
    BY <1>3, <2>1
  <2> QED
    BY <1>3, <2>2
<1>8. \A r \in Record : \A c \in Updates(r) : c.thread \in Thread
  BY CommitIsTyped DEF Updates, StateInv
<1>9. /\ \A u \in Thread : \A i \in DOMAIN todo[u] : \A y \in todo[u][i] :
           \E c \in Updates(y.record) : y = Element(c, y.record) /\ OnFile(c)
      /\ \A r \in Record :
           /\ \/ stamp[r] = 0 /\ recovered[r] = 0
              \/ \E c \in Updates(r) : /\ c.ts = stamp[r] /\ OnFile(c)
                                     /\ recovered[r] = Content(c, r)
           /\ \A c \in Updates(r) : OnFile(c) =>
                \/ c.ts <= stamp[r]
                \/ \E i \in DOMAIN todo[c.thread] : Element(c, r) \in todo[c.thread][i]
  BY <1>1 DEF ValueInv
<1>10. \A u \in Thread : \A i \in DOMAIN todo'[u] : \A y \in todo'[u][i] :
         \E c \in Updates(y.record)' : y = Element(c, y.record)' /\ OnFile(c)'
  BY <1>e, <1>4, <1>5, <1>6, <1>9
<1>11. ASSUME NEW r \in Record
       PROVE  /\ \/ stamp'[r] = 0 /\ recovered'[r] = 0
                 \/ \E c \in Updates(r)' : /\ c.ts = stamp'[r] /\ OnFile(c)'
                                         /\ recovered'[r] = Content(c, r)'
              /\ \A c \in Updates(r)' : OnFile(c)' =>
                   \/ c.ts <= stamp'[r]
                   \/ \E i \in DOMAIN todo'[c.thread] : Element(c, r)' \in todo'[c.thread][i]
  <2>1. \/ stamp'[r] = 0 /\ recovered'[r] = 0
        \/ \E c \in Updates(r)' : /\ c.ts = stamp'[r] /\ OnFile(c)'
                                /\ recovered'[r] = Content(c, r)'
    BY <1>e, <1>1, <1>4, <1>5, <1>9
  <2>2. ASSUME NEW c \in Updates(r), OnFile(c)
        PROVE  \/ c.ts <= stamp'[r]
               \/ \E i \in DOMAIN todo'[c.thread] : Element(c, r) \in todo'[c.thread][i]
    BY <1>1, <1>7, <1>8, <1>9, <2>2
  <2> QED
    BY <1>e, <1>4, <1>5, <2>1, <2>2
<1> QED
  BY <1>10, <1>11 DEF ValueInv

(***************************************************************************)
(* When all is replayed, what was logged of the last update on the files   *)
(* is recovered.  After an orderly end that is the last update there was;  *)
(* the content before it was written by the last of all others, because    *)
(* records that are read are locked where the old content is logged.       *)
(***************************************************************************)
LEMMA ValueRecovered ==
  ASSUME StateInv, SawInv, HistInv, NoWrap, FileInv, ValueInv
  PROVE  LastFlushedWins
<1> SUFFICES ASSUME logType = "VALUE", Recovered, NEW r \in Record
             PROVE  LET flushed == {c \in Updates(r) : OnFile(c)}
                    IN  /\ stamp[r] = LastOf(flushed)
                        /\ IF flushed = {} THEN recovered[r] = 0
                           ELSE recovered[r] = Content(Commit(stamp[r]), r)
                        /\ exited /\ image = "after" => recovered[r] = store[r]
                        /\ exited /\ image = "before" /\ Updates(r) # {} =>
                             recovered[r] = LastOf(Updates(r) \ {Commit(store[r])})
  BY DEF LastFlushedWins
<1> DEFINE C == {c \in Updates(r) : OnFile(c)}
<1>1. phase = "replay" /\ \A t \in Thread : DOMAIN todo[t] = {}
  BY DEF Recovered
<1>2. \A c \in Updates(r) : /\ c \in ToSet(commits) /\ c.ts \in Nat /\ c.ts > 0
                            /\ c.thread \in Thread
  BY CommitOrder, CommitIsTyped DEF Updates, StateInv
<1>3. /\ \/ stamp[r] = 0 /\ recovered[r] = 0
         \/ \E c \in C : c.ts = stamp[r] /\ recovered[r] = Content(c, r)
      /\ \A c \in C : c.ts <= stamp[r]
  BY <1>1, <1>2 DEF ValueInv
<1>4. C # {} => stamp[r] # 0
  BY <1>2, <1>3
<1>5. IsLast(stamp[r], C)
  <2> HIDE DEF C
  <2>1. CASE C = {}
    BY <1>3, <2>1 DEF IsLast
  <2>2. CASE C # {}
    BY <1>3, <1>4, <2>2 DEF IsLast
  <2> QED
    BY <2>1, <2>2
<1>6. stamp[r] = LastOf(C)
  BY <1>2, <1>5, LastIsUnique
<1>7. C = {} => stamp[r] = 0 /\ recovered[r] = 0
  BY <1>3
<1>8. ASSUME C # {}
      PROVE  /\ Commit(stamp[r]) \in Updates(r) /\ Commit(stamp[r]).ts = stamp[r]
             /\ recovered[r] = Content(Commit(stamp[r]), r)
  <2>1. PICK c \in C : c.ts = stamp[r] /\ recovered[r] = Content(c, r)
    BY <1>3, <1>4, <1>8
  <2>2. c \in ToSet(commits) /\ c \in Updates(r)
    BY <1>2, <2>1
  <2>3. Commit(stamp[r]) \in ToSet(commits) /\ Commit(stamp[r]).ts = stamp[r]
    BY <2>1, <2>2, CommitOf DEF Stamps
  <2>4. Commit(stamp[r]) = c
    BY <2>1, <2>2, <2>3, CommitOrder
  <2> QED
    BY <2>1, <2>2, <2>4
<1>9. ASSUME exited PROVE C = Updates(r) /\ stamp[r] = store[r]
  <2>1. ASSUME NEW c \in Updates(r) PROVE OnFile(c)
    <3>1. c.thread \in Thread /\ c \in ToSet(commits) /\ FileOf(c.thread)
      BY <1>1, <1>2, <2>1 DEF FileInv
    <3>2. file[c.thread] \in Seq(ChunkType)
      BY <3>1 DEF StateInv, TypeInv
    <3>3. /\ ChunksOf(c.thread, file[c.thread]) /\ Covered(c, file[c.thread])
          /\ \E i \in DOMAIN file[c.thread] : file[c.thread][i].epoch = CleanedUp
      BY <1>9, <3>1 DEF FileOf
    <3> QED
      BY <3>1, <3>2, <3>3, FileEntries DEF OnFile
  <2>2. C = Updates(r)
    BY <2>1
  <2>3. IsLast(store[r], C)
    BY <2>2 DEF HistInv
  <2> QED
    BY <1>2, <1>5, <2>2, <2>3, LastIsUnique
<1> HIDE DEF C
<1>10. ASSUME exited, image = "after" PROVE recovered[r] = store[r]
  BY <1>7, <1>8, <1>9, <1>10 DEF Content
<1>11. ASSUME exited, image = "before", Updates(r) # {}
       PROVE  recovered[r] = LastOf(Updates(r) \ {Commit(store[r])})
  <2> DEFINE c == Commit(store[r])
             D == {d \in Updates(r) : d.ts < c.ts}
  <2>1. c \in Updates(r) /\ c.ts = stamp[r] /\ recovered[r] = c.saw[r]
    BY <1>8, <1>9, <1>11 DEF Content
  <2> HIDE DEF c
  <2>2. c \in ToSet(commits) /\ r \in DOMAIN c.saw
    BY <1>2, <2>1 DEF SawInv, Saw, Updates
  <2>3. ReadLocks
    BY <1>11, RecoveryConstants DEF StateInv, TypeInv
  <2>4. IsLast(c.saw[r], D)
    BY <2>2, <2>3 DEF HistInv
  <2>5. ASSUME NEW d \in Updates(r), d # c PROVE d.ts < c.ts
    <3>1. d.ts <= c.ts
      BY <1>3, <1>9, <1>11, <2>1, <2>5
    <3>2. d.ts # c.ts
      BY <1>2, <2>2, <2>5, CommitOrder
    <3> QED
      BY <1>2, <2>1, <3>1, <3>2
  <2>6. ~(c.ts < c.ts)
    BY <1>2, <2>1
  <2>7. D = Updates(r) \ {c}
    BY <2>5, <2>6
  <2>8. \A d \in D : d.ts \in Nat
    BY <1>2
  <2> HIDE DEF D
  <2>9. c.saw[r] = LastOf(D)
    BY <2>4, <2>8, LastIsUnique
  <2> QED
    BY <2>1, <2>7, <2>9 DEF c
<1> QED
  BY <1>6, <1>7, <1>8, <1>10, <1>11 DEF C

(***************************************************************************)
(* The batches of a file are its chunks but for the one of CleanUp, which  *)
(* is the last.                                                            *)
(***************************************************************************)
LEMMA BatchesOf ==
  ASSUME NEW t \in Thread, NEW f \in Seq(ChunkType), ChunksOf(t, f)
  PROVE  /\ BatchCount(f) \in Nat /\ Len(f) \in Nat /\ DOMAIN f = 1..Len(f)
         /\ \A i \in DOMAIN f : f[i].epoch # CleanedUp <=> i \in 1..BatchCount(f)
         /\ IF \E i \in DOMAIN f : f[i].epoch = CleanedUp
            THEN Len(f) = BatchCount(f) + 1 /\ f[Len(f)].epoch = CleanedUp
            ELSE Len(f) = BatchCount(f)
<1> DEFINE n == Len(f)
           B == {i \in DOMAIN f : f[i].epoch # CleanedUp}
<1>1. n \in Nat /\ DOMAIN f = 1..n
  BY LenProperties
<1>2. \A i \in DOMAIN f : f[i].epoch = CleanedUp => i = n
  BY DEF ChunksOf
<1>3. CASE \E i \in DOMAIN f : f[i].epoch = CleanedUp
  <2>1. n > 0 /\ f[n].epoch = CleanedUp /\ n - 1 \in Nat
    BY <1>1, <1>2, <1>3
  <2>2. B = 1..(n - 1)
    BY <1>1, <1>2, <2>1
  <2>3. BatchCount(f) = n - 1
    <3> HIDE DEF n
    <3> QED
      BY <2>1, <2>2, IntervalCount DEF BatchCount
  <2>4. \A i \in DOMAIN f : f[i].epoch # CleanedUp <=> i \in 1..(n - 1)
    BY <2>2
  <2>5. n = (n - 1) + 1
    BY <1>1
  <2> QED
    BY <1>1, <1>3, <2>1, <2>3, <2>4, <2>5
<1>4. CASE ~\E i \in DOMAIN f : f[i].epoch = CleanedUp
  <2>1. B = 1..n
    BY <1>1, <1>4
  <2>2. BatchCount(f) = n
    <3> HIDE DEF n
    <3> QED
      BY <1>1, <2>1, IntervalCount DEF BatchCount
  <2> QED
    BY <1>1, <1>4, <2>1, <2>2
<1> QED
  BY <1>3, <1>4

(***************************************************************************)
(* The replay of the command log.  The batches of a replay that starts are *)
(* the epochs of thread 0, the last one together with the rest when all    *)
(* threads have ended in the same; and no epoch before is missing.         *)
(***************************************************************************)
LEMMA CommandStart ==
  ASSUME StateInv, RunInv, NoWrap, phase = "run", Crash \/ Exit
  PROVE  CommandInv'
<1> SUFFICES ASSUME phase' = "replay", logType' = "COMMAND", NoCleanUp' \/ EndedTogether'
             PROVE  CommandInv'
  BY DEF CommandInv
<1>1. PICK files \in [Thread -> Seq(ChunkType)] :
        /\ StartReplay(files)
        /\ \A t \in Thread :
             /\ ChunksOf(t, files[t]) /\ Gapless(t, files[t])
             /\ exited' =>
                  /\ \E i \in DOMAIN files[t] : files[t][i].epoch = CleanedUp
                  /\ \A c \in ToSet(commits) : c.thread = t => Covered(c, files[t])
  BY ReplayedFiles
<1>2. /\ file' = files /\ UNCHANGED <<commits, recovered, diverged, logType>>
      /\ todo' = Todo(files) /\ logType = "COMMAND" /\ Reorders(files)
      /\ \A t \in Thread : Reloads(files[t])
  BY <1>1 DEF StartReplay, built
<1>z. 0 \in Thread
  BY RecoveryConstants DEF Thread
<1> DEFINE K == BatchCount(files[0])
           E(k) == files[0][k].epoch
           Together == EndedTogether'
           Belongs(c, k) == c.epoch = E(k) \/ (Together /\ k = K /\ c.epoch = lastEpoch[c.thread])
<1>3. todo'[0] = [k \in 1..K |-> Merged(files, k)]
  BY <1>2, <1>z DEF Todo, SerialLog
<1>4. \A t \in Thread :
        /\ files[t] \in Seq(ChunkType)
        /\ BatchCount(files[t]) \in Nat /\ Len(files[t]) \in Nat /\ DOMAIN files[t] = 1..Len(files[t])
        /\ \A i \in DOMAIN files[t] : files[t][i].epoch # CleanedUp <=> i \in 1..BatchCount(files[t])
        /\ IF \E i \in DOMAIN files[t] : files[t][i].epoch = CleanedUp
           THEN Len(files[t]) = BatchCount(files[t]) + 1 /\ files[t][Len(files[t])].epoch = CleanedUp
           ELSE Len(files[t]) = BatchCount(files[t])
  BY <1>1, BatchesOf
<1>5. K \in Nat
  BY <1>4, <1>z
<1>6. ASSUME NEW t \in Thread, NEW k \in 1..K
      PROVE  /\ k <= BatchCount(files[t]) /\ k \in DOMAIN files[t] /\ k \in Nat \ {0}
             /\ files[t][k].epoch = E(k) /\ E(k) # CleanedUp /\ E(k) \in Nat
             /\ E(k) < lastEpoch[t] /\ ToSet(files[t][k].entries) = ByEpoch(t, E(k))
             /\ \A j \in DOMAIN files[t] : j < k => files[t][j].epoch < E(k)
  <2>1. k <= BatchCount(files[t]) /\ files[t][k].epoch = E(k) /\ k \in Nat \ {0}
    BY <1>2, <1>5 DEF Reorders
  <2>2. k \in 1..BatchCount(files[t])
    BY <1>4, <2>1
  <2>3. k \in DOMAIN files[t]
    BY <1>4, <2>2
  <2>4. files[t][k].epoch # CleanedUp
    BY <1>4, <2>2, <2>3
  <2>5. files[t][k].epoch \in {CleanedUp} \cup Nat
    <3>1. files[t][k] \in ChunkType
      BY <1>4, <2>3, ElementOfSeq
    <3> QED
      BY <3>1 DEF ChunkType
  <2>6. /\ files[t][k].epoch < lastEpoch[t]
        /\ \A j \in DOMAIN files[t] : j < k => files[t][j].epoch < files[t][k].epoch
        /\ ToSet(files[t][k].entries) = ByEpoch(t, files[t][k].epoch)
    BY <1>1, <2>3, <2>4 DEF ChunksOf, ChunkEpoch
  <2> QED
    BY <2>1, <2>3, <2>4, <2>5, <2>6
<1>7. \A i, j \in 1..K : i < j => E(i) < E(j)
  BY <1>6, <1>z
<1>8. Together => exited' /\ \A t \in Thread : BatchCount(files[t]) = K
  BY <1>2 DEF EndedTogether
<1>9. ~Together => \A t \in Thread : \A i \in DOMAIN files[t] : files[t][i].epoch # CleanedUp
  BY <1>2 DEF NoCleanUp
<1>10. \A c \in ToSet(commits) : /\ c.epoch \in Nat /\ c.epoch > 0 /\ c.thread \in Thread
                                 /\ c.ts \in Nat
  <2>1. \A c \in ToSet(commits) : c.epoch \in 1..epoch /\ c.epoch \in Nat
    BY CommitOrder DEF RunInv
  <2> QED
    BY <2>1, CommitIsTyped DEF StateInv, TypeInv
<1>11. ASSUME Together
       PROVE  /\ K > 0
              /\ \A t \in Thread :
                   /\ Len(files[t]) = K + 1 /\ K + 1 \in DOMAIN files[t]
                   /\ files[t][K + 1].epoch = CleanedUp
                   /\ ToSet(files[t][K + 1].entries) = ByEpoch(t, lastEpoch[t])
  <2>1. ASSUME NEW t \in Thread
        PROVE  /\ Len(files[t]) = K + 1 /\ K + 1 \in DOMAIN files[t]
               /\ files[t][K + 1].epoch = CleanedUp
               /\ ToSet(files[t][K + 1].entries) = ByEpoch(t, lastEpoch[t])
    <3>1. /\ Len(files[t]) = BatchCount(files[t]) + 1
          /\ files[t][Len(files[t])].epoch = CleanedUp
      BY <1>1, <1>4, <1>8, <1>11
    <3>2. Len(files[t]) = K + 1 /\ K + 1 \in DOMAIN files[t] /\ files[t][K + 1].epoch = CleanedUp
      BY <1>4, <1>5, <1>8, <1>11, <3>1
    <3> QED
      BY <1>1, <3>2 DEF ChunksOf, ChunkEpoch
  <2>2. files[0] # <<>>
    BY <1>5, <1>z, <2>1
  <2>3. files[0][1].epoch # CleanedUp
    BY <1>2, <1>z, <2>2 DEF Reloads
  <2>4. K + 1 # 1
    BY <1>z, <2>1, <2>3
  <2> QED
    BY <1>5, <2>1, <2>4
<1>12. ASSUME NEW t \in Thread, NEW k \in 1..K
       PROVE  ToSet(BatchOf(files[t], k)) =
                ByEpoch(t, E(k)) \cup (IF Together /\ k = K THEN ByEpoch(t, lastEpoch[t]) ELSE {})
  <2>1. ToSet(BatchOf(files[t], k)) =
          ToSet(files[t][k].entries) \cup
          (IF k = BatchCount(files[t]) /\ k < Len(files[t]) THEN ToSet(files[t][k + 1].entries)
                                                           ELSE {})
    BY <1>4, <1>6, BatchEntries
  <2>2. CASE Together
    BY <1>5, <1>6, <1>8, <1>11, <2>1, <2>2
  <2>3. CASE ~Together
    <3>1. Len(files[t]) = BatchCount(files[t])
      BY <1>4, <1>9, <2>3
    <3> QED
      BY <1>4, <1>6, <2>1, <2>3, <3>1
  <2> QED
    BY <2>2, <2>3
<1>13. \A k \in 1..K : \A x : x \in todo'[0][k] <=>
         \E c \in ToSet(commits) : c.ts = x /\ Belongs(c, k)
  <2> SUFFICES ASSUME NEW k \in 1..K, NEW x
               PROVE  x \in Merged(files, k) <=>
                        \E c \in ToSet(commits) : c.ts = x /\ Belongs(c, k)
    BY <1>3
  <2>1. x \in Merged(files, k) <=> \E t \in Thread : x \in ToSet(BatchOf(files[t], k))
    BY DEF Merged
  <2>2. ASSUME NEW t \in Thread
        PROVE  x \in ToSet(BatchOf(files[t], k)) <=>
                 \E c \in ToSet(commits) : c.ts = x /\ c.thread = t /\ Belongs(c, k)
    <3>1. x \in ToSet(BatchOf(files[t], k)) <=>
            x \in ByEpoch(t, E(k)) \/ (Together /\ k = K /\ x \in ByEpoch(t, lastEpoch[t]))
      BY <1>12
    <3> HIDE DEF E, Together, K
    <3> QED
      BY <3>1 DEF ByEpoch
  <2> HIDE DEF Belongs
  <2> QED
    BY <1>10, <2>1, <2>2
<1>14. \A c : c \in Replayed' <=> c \in ToSet(commits) /\ \E k \in 1..K : Belongs(c, k)
  <2> SUFFICES ASSUME NEW c \in ToSet(commits)
               PROVE  c \in Replayed' <=> \E k \in 1..K : Belongs(c, k)
    BY <1>2 DEF Replayed
  <2>1. CASE Together
    <3>1. c \in Replayed'
      BY <1>2, <2>1 DEF Replayed
    <3>2. Covered(c, files[c.thread])
      BY <1>1, <1>8, <1>10, <2>1
    <3>3. CASE c.epoch = lastEpoch[c.thread]
      <4>1. Belongs(c, K) /\ K \in 1..K
        BY <1>5, <1>11, <2>1, <3>3
      <4> QED
        BY <3>1, <4>1
    <3>4. CASE \E i \in DOMAIN files[c.thread] : files[c.thread][i].epoch = c.epoch
      <4>1. PICK i \in DOMAIN files[c.thread] : files[c.thread][i].epoch = c.epoch
        BY <3>4
      <4>2. i \in 1..K
        BY <1>4, <1>8, <1>10, <2>1, <4>1 DEF CleanedUp
      <4>3. Belongs(c, i)
        BY <1>6, <1>10, <4>1, <4>2
      <4> QED
        BY <3>1, <4>2, <4>3
    <3> QED
      BY <3>2, <3>3, <3>4 DEF Covered
  <2>2. CASE ~Together
    <3>1. c \in Replayed' <=> \E i \in DOMAIN files[0] : files[0][i].epoch = c.epoch
      BY <1>2, <2>2 DEF Replayed, ReplayedEpochs
    <3>2. DOMAIN files[0] = 1..K
      BY <1>4, <1>9, <1>z, <2>2
    <3> QED
      BY <2>2, <3>1, <3>2
  <2> QED
    BY <2>1, <2>2
<1> HIDE DEF Belongs
<1>15. \A x : x \in Rest' <=> \E c \in Replayed' : c.ts = x
  <2>1. \A x : x \in Rest' <=> \E k \in 1..K : x \in todo'[0][k]
    BY <1>3 DEF Rest
  <2> QED
    BY <1>13, <1>14, <2>1
<1>16. \A i, j \in DOMAIN todo'[0] : i < j => \A x \in todo'[0][i], y \in todo'[0][j] : x < y
  <2> SUFFICES ASSUME NEW i \in 1..K, NEW j \in 1..K, i < j,
                      NEW x \in todo'[0][i], NEW y \in todo'[0][j]
               PROVE  x < y
    BY <1>3
  <2>1. PICK c \in ToSet(commits) : c.ts = x /\ Belongs(c, i)
    BY <1>13
  <2>2. PICK d \in ToSet(commits) : d.ts = y /\ Belongs(d, j)
    BY <1>13
  <2>3. i # K
    BY <1>5
  <2>4. c.epoch = E(i)
    BY <2>1, <2>3 DEF Belongs
  <2>5. E(i) < d.epoch
    <3>1. d.epoch = E(j) \/ d.epoch = lastEpoch[d.thread]
      BY <2>2 DEF Belongs
    <3>2. E(i) < E(j)
      BY <1>7
    <3>3. E(i) < lastEpoch[d.thread]
      BY <1>6, <1>10
    <3> QED
      BY <3>1, <3>2, <3>3
  <2> QED
    BY <2>1, <2>2, <2>4, <2>5, CommitOrder DEF RunInv
<1>17. ASSUME NEW c \in Replayed', NEW d \in ToSet(commits)', d.ts < c.ts PROVE d \in Replayed'
  <2>1. c \in ToSet(commits) /\ d \in ToSet(commits)
    BY <1>2, <1>14
  <2>2. CASE Together
    BY <1>2, <2>1, <2>2 DEF Replayed
  <2>3. CASE ~Together
    <3>1. PICK k \in 1..K : c.epoch = E(k)
      BY <1>14, <2>3 DEF Belongs
    <3>2. d.epoch <= c.epoch
      <4>1. c.epoch < d.epoch => c.ts < d.ts
        BY <2>1, CommitOrder DEF RunInv
      <4> QED
        BY <1>10, <1>17, <2>1, <4>1
    <3> DEFINE f == files[d.thread]
    <3>3. d.thread \in Thread /\ k \in DOMAIN f /\ f[k].epoch = E(k) /\ Gapless(d.thread, f)
      BY <1>1, <1>6, <1>10, <2>1
    <3>4. PICK j \in DOMAIN f : f[j].epoch = d.epoch
      BY <2>1, <3>1, <3>2, <3>3 DEF Gapless
    <3>5. f[j].epoch # CleanedUp /\ j \in Nat /\ k \in Nat /\ j >= 1
      BY <1>4, <1>10, <2>1, <3>3, <3>4 DEF CleanedUp
    <3>6. k < j => f[k].epoch < f[j].epoch
      BY <1>1, <3>3, <3>4, <3>5 DEF ChunksOf
    <3>7. ~(k < j)
      BY <1>10, <2>1, <3>1, <3>2, <3>3, <3>4, <3>6
    <3>8. j \in 1..K
      BY <1>5, <3>5, <3>7
    <3>9. d.epoch = E(j)
      BY <1>6, <3>3, <3>4, <3>8
    <3> QED
      BY <1>14, <2>1, <3>8, <3>9 DEF Belongs
  <2> QED
    BY <2>2, <2>3
<1>18. \A c \in Replayed' : c.ts \in Rest'
  BY <1>15
<1>19. \A r \in Record :
         IsLast(recovered'[r], {c \in Updates(r)' : c \in Replayed' /\ c.ts \notin Rest'})
  <2>1. \A r \in Record : recovered'[r] = 0
    BY <1>2 DEF RunInv, Untouched
  <2>2. \A r : {c \in Updates(r)' : c \in Replayed' /\ c.ts \notin Rest'} = {}
    BY <1>18
  <2> QED
    BY <2>1, <2>2 DEF IsLast
<1>20. diverged' = FALSE
  BY <1>2 DEF RunInv, Untouched
<1>21. Rest' \subseteq {c.ts : c \in Replayed'}
  BY <1>15
<1> QED
  BY <1>16, <1>17, <1>18, <1>19, <1>20, <1>21 DEF CommandInv

(***************************************************************************)
(* What has been replayed are the commits below what is left, so that a    *)
(* procedure that is run again finds the versions it has seen before.      *)
(***************************************************************************)
LEMMA CommandReplayed ==
  ASSUME StateInv, HistInv, NoWrap, CommandInv, ReplayCommand
  PROVE  CommandInv'
<1> DEFINE x == MinEntry(Head(todo[0]))
           c == Commit(x)
<1>1. /\ phase = "replay" /\ logType = "COMMAND" /\ todo[0] # <<>> /\ Head(todo[0]) # {}
      /\ todo' = [todo EXCEPT ![0][1] = @ \ {x}]
      /\ diverged' = (diverged \/ \E r \in DOMAIN c.saw : recovered[r] # c.saw[r])
      /\ recovered' = [r \in Record |-> IF r \in c.wrote THEN c.ts ELSE recovered[r]]
      /\ UNCHANGED <<phase, logType, exited, file, commits>>
  BY DEF ReplayCommand, built, log
<1>2. (NoCleanUp' <=> NoCleanUp) /\ (EndedTogether' <=> EndedTogether) /\ Replayed' = Replayed
  BY <1>1 DEF NoCleanUp, EndedTogether, BatchCount, Replayed, ReplayedEpochs
<1> SUFFICES ASSUME NoCleanUp \/ EndedTogether PROVE CommandInv'
  BY <1>2 DEF CommandInv
<1>3. /\ Rest \subseteq {d.ts : d \in Replayed}
      /\ \A i, j \in DOMAIN todo[0] : i < j =>
           \A y \in todo[0][i], z \in todo[0][j] : y < z
      /\ \A d \in Replayed : d.ts \notin Rest => \A y \in Rest : d.ts < y
      /\ \A d \in Replayed, e \in ToSet(commits) : e.ts < d.ts => e \in Replayed
      /\ \A r \in Record :
           IsLast(recovered[r], {d \in Updates(r) : d \in Replayed /\ d.ts \notin Rest})
      /\ ReadLocks => diverged = FALSE
  BY <1>1 DEF CommandInv
<1>z. 0 \in Thread
  BY RecoveryConstants DEF Thread
<1>4. /\ DOMAIN todo[0] = 1..Len(todo[0]) /\ Len(todo[0]) \in Nat \ {0} /\ 1 \in DOMAIN todo[0]
      /\ Head(todo[0]) = todo[0][1] /\ todo[0][1] \subseteq Nat
      /\ todo'[0] = [todo[0] EXCEPT ![1] = @ \ {x}]
      /\ DOMAIN todo'[0] = DOMAIN todo[0] /\ todo'[0][1] = todo[0][1] \ {x}
      /\ \A i \in DOMAIN todo[0] : i # 1 => todo'[0][i] = todo[0][i]
  <2>1. todo'[0] = [todo[0] EXCEPT ![1] = @ \ {x}]
    BY <1>1, <1>z DEF StateInv, TypeInv
  <2>2. /\ DOMAIN todo[0] = 1..Len(todo[0]) /\ Len(todo[0]) \in Nat \ {0} /\ 1 \in DOMAIN todo[0]
        /\ Head(todo[0]) = todo[0][1] /\ todo[0][1] \subseteq EntryType
        /\ DOMAIN todo'[0] = DOMAIN todo[0] /\ todo'[0][1] = todo[0][1] \ {x}
        /\ \A i \in DOMAIN todo[0] : i # 1 => todo'[0][i] = todo[0][i]
    BY <1>1, <1>z, <2>1, HeadOfTodo DEF StateInv
  <2> QED
    BY <1>1, <2>1, <2>2 DEF EntryType
<1>5. x \in todo[0][1] /\ \A y \in todo[0][1] : x <= y
  BY <1>1, <1>4, LeastNatural DEF MinEntry
<1>6. x \in Rest /\ x \in Nat
  BY <1>4, <1>5 DEF Rest
<1>7. \A d \in ToSet(commits) : d.ts \in Nat /\ d \in CommitType
  BY CommitIsTyped DEF StateInv
<1>8. \A e, d \in ToSet(commits) : e.ts = d.ts => e = d
  BY CommitOrder
<1>9. Replayed \subseteq ToSet(commits)
  BY DEF Replayed
<1>10. c \in Replayed /\ c.ts = x /\ c \in ToSet(commits)
  <2>1. PICK d \in Replayed : d.ts = x
    BY <1>3, <1>6
  <2>2. d \in ToSet(commits)
    BY <1>9
  <2>3. c \in ToSet(commits) /\ c.ts = x
    BY <2>1, <2>2, CommitOf DEF Stamps
  <2> QED
    BY <1>8, <2>1, <2>2, <2>3
<1> HIDE DEF x, c
<1>11. \A y \in Rest : y \in Nat /\ (y # x => x < y)
  <2> SUFFICES ASSUME NEW y \in Rest PROVE y \in Nat /\ (y # x => x < y)
    OBVIOUS
  <2>1. y \in Nat
    BY <1>3, <1>7, <1>9
  <2>2. PICK i \in DOMAIN todo[0] : y \in todo[0][i]
    BY DEF Rest
  <2>3. CASE i = 1
    BY <1>5, <1>6, <2>1, <2>2, <2>3
  <2>4. CASE i # 1
    <3>1. 1 < i
      BY <1>4, <2>4
    <3> QED
      BY <1>3, <1>4, <1>5, <2>1, <2>2, <3>1
  <2> QED
    BY <2>1, <2>3, <2>4
<1>12. Rest' = Rest \ {x}
  <2>1. \A i \in DOMAIN todo[0] : i # 1 => x \notin todo[0][i]
    <3> SUFFICES ASSUME NEW i \in DOMAIN todo[0], i # 1, x \in todo[0][i] PROVE FALSE
      OBVIOUS
    <3>1. 1 < i
      BY <1>4
    <3>2. x < x
      BY <1>3, <1>4, <1>5, <3>1
    <3> QED
      BY <1>6, <3>2
  <2>2. \A i \in DOMAIN todo[0] : todo'[0][i] = todo[0][i] \ {x}
    BY <1>4, <2>1
  <2> QED
    BY <1>4, <2>2 DEF Rest
<1>13. \A d \in ToSet(commits) : (d \in Replayed /\ d.ts \notin Rest) <=> d.ts < x
  <2>1. ASSUME NEW d \in ToSet(commits), d \in Replayed, d.ts \notin Rest PROVE d.ts < x
    BY <1>3, <1>6, <2>1
  <2>2. ASSUME NEW d \in ToSet(commits), d.ts < x PROVE d \in Replayed /\ d.ts \notin Rest
    <3>1. d \in Replayed
      BY <1>3, <1>10, <2>2
    <3>2. d.ts \notin Rest
      <4>1. d.ts \in Nat /\ ~(x < d.ts) /\ d.ts # x
        BY <1>6, <1>7, <2>2
      <4> QED
        BY <1>11, <4>1
    <3> QED
      BY <3>1, <3>2
  <2> QED
    BY <2>1, <2>2
<1>14. \A r : Updates(r)' = Updates(r) /\ Updates(r) \subseteq ToSet(commits)
  BY <1>1 DEF Updates
<1>15. \A r : {d \in Updates(r) : d \in Replayed /\ d.ts \notin Rest} = {d \in Updates(r) : d.ts < x}
  BY <1>13, <1>14
<1>16. Rest' \subseteq {d.ts : d \in Replayed'}
  BY <1>2, <1>3, <1>12
<1>17. \A i, j \in DOMAIN todo'[0] : i < j => \A y \in todo'[0][i], z \in todo'[0][j] : y < z
  <2>1. \A i \in DOMAIN todo[0] : todo'[0][i] \subseteq todo[0][i]
    BY <1>4
  <2> QED
    BY <1>3, <1>4, <2>1
<1>18. ASSUME NEW d \in Replayed', d.ts \notin Rest', NEW y \in Rest' PROVE d.ts < y
  <2>1. CASE d.ts = x
    BY <1>11, <1>12, <2>1
  <2>2. CASE d.ts # x
    BY <1>2, <1>3, <1>12, <1>18, <2>2
  <2> QED
    BY <2>1, <2>2
<1>19. \A d \in Replayed', e \in ToSet(commits)' : e.ts < d.ts => e \in Replayed'
  BY <1>1, <1>2, <1>3
<1>20. ASSUME NEW r \in Record
       PROVE  IsLast(recovered'[r], {d \in Updates(r)' : d \in Replayed' /\ d.ts \notin Rest'})
  <2> DEFINE C == {d \in Updates(r) : d.ts < x}
             D == {d \in Updates(r)' : d \in Replayed' /\ d.ts \notin Rest'}
  <2>1. IsLast(recovered[r], C)
    BY <1>3, <1>15
  <2>2. \A d : d \in D <=> d \in C \/ (d = c /\ r \in c.wrote)
    <3> SUFFICES ASSUME NEW d \in ToSet(commits), r \in d.wrote
                 PROVE  (d \in Replayed /\ d.ts \notin Rest') <=> d.ts < x \/ d = c
      BY <1>2, <1>10, <1>14 DEF Updates
    <3>1. CASE d = c
      BY <1>10, <1>12, <3>1
    <3>2. CASE d # c
      <4>1. d.ts # x
        BY <1>8, <1>10, <3>2
      <4> QED
        BY <1>12, <1>13, <3>2, <4>1
    <3> QED
      BY <3>1, <3>2
  <2>3. recovered'[r] = IF r \in c.wrote THEN x ELSE recovered[r]
    BY <1>1, <1>10
  <2>4. CASE r \in c.wrote
    <3>1. c \in D /\ \A d \in D : d.ts <= x
      <4>1. \A d \in C : d.ts <= x
        BY <1>6, <1>7, <1>14
      <4> QED
        BY <1>6, <1>10, <2>2, <2>4, <4>1
    <3> QED
      BY <1>10, <2>3, <2>4, <3>1 DEF IsLast
  <2>5. CASE r \notin c.wrote
    <3>1. D = C
      BY <2>2, <2>5
    <3> QED
      BY <2>1, <2>3, <2>5, <3>1
  <2> QED
    BY <2>4, <2>5
<1>21. ASSUME ReadLocks PROVE diverged' = FALSE
  <2>1. ASSUME NEW r \in DOMAIN c.saw PROVE recovered[r] = c.saw[r]
    <3>1. r \in Record
      BY <1>7, <1>10 DEF CommitType, SawType
    <3>2. IsLast(c.saw[r], {d \in Updates(r) : d.ts < x})
      BY <1>10, <1>21 DEF HistInv
    <3>3. IsLast(recovered[r], {d \in Updates(r) : d.ts < x})
      BY <1>3, <1>15, <3>1
    <3> DEFINE C == {d \in Updates(r) : d.ts < x}
    <3>4. \A d \in C : d.ts \in Nat
      BY <1>7, <1>14
    <3> HIDE DEF C
    <3> QED
      BY <3>2, <3>3, <3>4, LastIsUnique DEF C
  <2> QED
    BY <1>1, <1>3, <1>21, <2>1
<1> QED
  BY <1>16, <1>17, <1>18, <1>19, <1>20, <1>21 DEF CommandInv

(***************************************************************************)
(* The next batch of the command log: no procedure of the last one is      *)
(* left.                                                                   *)
(***************************************************************************)
LEMMA CommandNextBatch ==
  ASSUME StateInv, CommandInv, NEW t \in Thread, NextBatch(t)
  PROVE  CommandInv'
<1>1. /\ phase = "replay" /\ todo[t] # <<>> /\ Head(todo[t]) = {}
      /\ todo' = [todo EXCEPT ![t] = Tail(todo[t])]
      /\ UNCHANGED <<phase, logType, exited, file, commits, recovered, diverged>>
  BY DEF NextBatch, built, log, StateInv, TypeInv
<1>2. (NoCleanUp' <=> NoCleanUp) /\ (EndedTogether' <=> EndedTogether) /\ Replayed' = Replayed
  BY <1>1 DEF NoCleanUp, EndedTogether, BatchCount, Replayed, ReplayedEpochs
<1>3. \A r : Updates(r)' = Updates(r)
  BY <1>1 DEF Updates
<1>z. 0 \in Thread
  BY RecoveryConstants DEF Thread
<1>4. /\ Rest' = Rest
      /\ (\A i, j \in DOMAIN todo[0] : i < j => \A y \in todo[0][i], z \in todo[0][j] : y < z)
           => \A i, j \in DOMAIN todo'[0] : i < j => \A y \in todo'[0][i], z \in todo'[0][j] : y < z
  <2>1. CASE t # 0
    <3>1. todo'[0] = todo[0]
      BY <1>1, <1>z, <2>1 DEF StateInv, TypeInv
    <3> QED
      BY <3>1 DEF Rest
  <2>2. CASE t = 0
    <3>1. todo'[0] = Tail(todo[0])
      BY <1>1, <1>z, <2>2 DEF StateInv, TypeInv
    <3>2. /\ DOMAIN todo[0] = 1..Len(todo[0]) /\ Len(todo[0]) \in Nat
          /\ Head(todo[0]) = todo[0][1]
          /\ DOMAIN Tail(todo[0]) = 1..(Len(todo[0]) - 1)
          /\ \A i \in 1..(Len(todo[0]) - 1) : Tail(todo[0])[i] = todo[0][i + 1]
      BY <1>1, <1>z, <2>2, HeadOfTodo DEF StateInv
    <3>3. \A i \in DOMAIN todo'[0] : i \in Int /\ i + 1 \in DOMAIN todo[0] /\ todo'[0][i] = todo[0][i + 1]
      BY <3>1, <3>2
    <3>4. todo[0][1] = {}
      BY <1>1, <2>2, <3>2
    <3>5. ASSUME NEW y PROVE y \in Rest <=> y \in Rest'
      <4>1. ASSUME NEW i \in DOMAIN todo[0], y \in todo[0][i]
            PROVE  \E j \in DOMAIN todo'[0] : y \in todo'[0][j]
        <5>1. i # 1
          BY <3>4, <4>1
        <5>2. i - 1 \in 1..(Len(todo[0]) - 1) /\ (i - 1) + 1 = i
          BY <3>2, <5>1
        <5> QED
          BY <3>1, <3>2, <4>1, <5>2
      <4>2. ASSUME NEW j \in DOMAIN todo'[0], y \in todo'[0][j]
            PROVE  \E i \in DOMAIN todo[0] : y \in todo[0][i]
        BY <3>3, <4>2
      <4> QED
        BY <4>1, <4>2 DEF Rest
    <3>6. \A i, j \in DOMAIN todo'[0] : i < j => i + 1 < j + 1
      BY <3>3
    <3> QED
      BY <3>3, <3>5, <3>6
  <2> QED
    BY <2>1, <2>2
<1> QED
  BY <1>1, <1>2, <1>3, <1>4 DEF CommandInv

(***************************************************************************)
(* When all is replayed, so are the epochs of thread 0, or all commits.    *)
(***************************************************************************)
LEMMA CommandRecovered ==
  ASSUME StateInv, HistInv, NoWrap, FileInv, CommandInv
  PROVE  EpochsRecovered
<1> SUFFICES ASSUME logType = "COMMAND", Recovered, NEW r \in Record
             PROVE  /\ NoCleanUp => recovered[r] =
                         LastOf({c \in Updates(r) : c.epoch \in ReplayedEpochs})
                    /\ EndedTogether => recovered[r] = store[r]
  BY DEF EpochsRecovered
<1>z. 0 \in Thread
  BY RecoveryConstants DEF Thread
<1>1. phase = "replay" /\ Rest = {}
  BY <1>z DEF Recovered, Rest
<1>2. \A c \in Updates(r) : c \in ToSet(commits) /\ c.ts \in Nat
  BY CommitIsTyped DEF Updates, StateInv
<1>3. NoCleanUp \/ EndedTogether => IsLast(recovered[r], {c \in Updates(r) : c \in Replayed})
  <2>1. {c \in Updates(r) : c \in Replayed /\ c.ts \notin Rest} = {c \in Updates(r) : c \in Replayed}
    BY <1>1
  <2> QED
    BY <1>1, <2>1 DEF CommandInv
<1>4. ASSUME NoCleanUp
      PROVE  recovered[r] = LastOf({c \in Updates(r) : c.epoch \in ReplayedEpochs})
  <2>1. ~exited
    BY <1>1, <1>4, <1>z DEF FileInv, FileOf, NoCleanUp
  <2>2. {c \in Updates(r) : c \in Replayed} = {c \in Updates(r) : c.epoch \in ReplayedEpochs}
    BY <1>2, <2>1 DEF Replayed, EndedTogether
  <2> QED
    BY <1>2, <1>3, <1>4, <2>2, LastIsUnique
<1>5. ASSUME EndedTogether PROVE recovered[r] = store[r]
  <2>1. {c \in Updates(r) : c \in Replayed} = Updates(r)
    BY <1>2, <1>5 DEF Replayed
  <2>2. IsLast(store[r], Updates(r))
    BY DEF HistInv
  <2> QED
    BY <1>2, <1>3, <1>5, <2>1, <2>2, LastIsUnique
<1> QED
  BY <1>4, <1>5

(***************************************************************************)
(* The invariants of the run and of the replay, together.                  *)
(***************************************************************************)
AllInv == StateInv /\ SawInv /\ (NoWrap => RunInv /\ ReplayInv)

(***************************************************************************)
(* Every step keeps the invariants of the replay.                          *)
(***************************************************************************)
LEMMA ReplayNext ==
  ASSUME StateInv, RunInv, NoWrap, ReplayInv, [Next]_vars
  PROVE  ReplayInv'
<1> USE DEF ReplayInv
<1>1. CASE phase' # "replay"
  BY <1>1 DEF FileInv, ValueInv, CommandInv
<1>2. CASE phase' = "replay"
  <2>1. CASE Crash \/ Exit
    <3>1. phase = "run"
      BY <2>1 DEF Crash, Exit
    <3> QED
      BY <2>1, <3>1, FilesStart, ValueStart, CommandStart
  <2>2. CASE \E t \in Thread : ReplayValue(t)
    <3>1. /\ logType' = "VALUE"
          /\ UNCHANGED <<phase, exited, file, lastEpoch, commits>>
      BY <2>2 DEF ReplayValue, built, log
    <3>2. CommandInv'
      BY <3>1 DEF CommandInv
    <3> QED
      BY <2>2, <3>1, <3>2, FileKept, ValueReplayed
  <2>3. CASE \E t \in Thread : NextBatch(t)
    <3>1. UNCHANGED <<phase, exited, file, lastEpoch, commits>>
      BY <2>3 DEF NextBatch, log
    <3> QED
      BY <2>3, <3>1, FileKept, ValueNextBatch, CommandNextBatch
  <2>4. CASE ReplayCommand
    <3>1. /\ logType' = "COMMAND"
          /\ UNCHANGED <<phase, exited, file, lastEpoch, commits>>
      BY <2>4 DEF ReplayCommand, built, log
    <3>2. ValueInv'
      BY <3>1 DEF ValueInv
    <3> QED
      BY <2>4, <3>1, <3>2, FileKept, CommandReplayed DEF RunInv
  <2>5. CASE UNCHANGED vars
    <3>1. UNCHANGED <<logType, image, phase, exited, lastEpoch, file, commits, todo,
                      recovered, stamp, diverged>>
      BY <2>5 DEF vars, built, log, replay
    <3>2. ValueInv'
      <4>1. \A r : Updates(r)' = Updates(r)
        BY <3>1 DEF Updates
      <4>2. \A c : OnFile(c)' <=> OnFile(c)
        BY <3>1 DEF OnFile, Entries
      <4>3. \A c, r : Element(c, r)' = Element(c, r) /\ Content(c, r)' = Content(c, r)
        BY <3>1 DEF Element, Content
      <4> QED
        BY <3>1, <4>1, <4>2, <4>3 DEF ValueInv
    <3>3. CommandInv'
      <4>1. /\ (NoCleanUp' <=> NoCleanUp) /\ (EndedTogether' <=> EndedTogether)
            /\ Replayed' = Replayed /\ Rest' = Rest /\ \A r : Updates(r)' = Updates(r)
        BY <3>1 DEF NoCleanUp, EndedTogether, BatchCount, Replayed, ReplayedEpochs, Rest, Updates
      <4> QED
        BY <3>1, <4>1 DEF CommandInv
    <3> QED
      BY <3>1, <3>2, <3>3, FileKept
  <2>6. \/ Crash \/ Exit \/ ReplayCommand \/ UNCHANGED vars
        \/ \E t \in Thread : ReplayValue(t)
        \/ \E t \in Thread : NextBatch(t)
    BY <1>2 DEF Next, Ended, Run, GetEpoch, Install, AppendEntry, WriteChunk, Sync, CleanUp,
                SyncCleanUp, AdvanceEpoch
  <2> QED
    BY <2>1, <2>2, <2>3, <2>4, <2>5, <2>6
<1> QED
  BY <1>1, <1>2

(***************************************************************************)
(* The invariant holds in every reachable state.                           *)
(***************************************************************************)
LEMMA AllInvariant == Spec => []AllInv
<1>1. Init => AllInv
  <2>1. Init => ReplayInv
    BY DEF Init, ReplayInv, FileInv, ValueInv, CommandInv
  <2> QED
    BY <2>1, StateInit, SawInit, RunInit DEF AllInv
<1>2. AllInv /\ [Next]_vars => AllInv'
  BY StateNext, SawNext, WrapNext, RunNext, ReplayNext DEF AllInv
<1> QED
  BY <1>1, <1>2, PTL DEF Spec

(***************************************************************************)
(* The log is complete: what has returned is in the buffer or in a chunk   *)
(* of its epoch, once and in order (ValueLogger.h and CommandLogger.h,     *)
(* CommitTransaction; BaseLogger.h, CleanUp), as long as the counter has   *)
(* not run into the epoch.                                                 *)
(***************************************************************************)
THEOREM LogsComplete == Spec => [](NoWrap => LogComplete)
<1>1. AllInv => (NoWrap => LogComplete)
  BY LogIsComplete DEF AllInv
<1> QED
  BY <1>1, AllInvariant, PTL

(***************************************************************************)
(* The value log (ValueLogger.h, CommitTransaction; ValueReplayer.h,       *)
(* ProcessLog): whatever the replaying threads do in whatever order, what  *)
(* was logged of the last update on the files is there in the end.  After  *)
(* an orderly end of the program that is its store if the new content is   *)
(* logged, and one update behind it if the old one is.                     *)
(***************************************************************************)
THEOREM ValuesRecovered == Spec => [](NoWrap => LastFlushedWins)
<1>1. AllInv => (NoWrap => LastFlushedWins)
  BY ValueRecovered DEF AllInv, RunInv, ReplayInv
<1> QED
  BY <1>1, AllInvariant, PTL

(***************************************************************************)
(* The command log (SerialCommandReplayer.h, ProcessLog): a replay that    *)
(* starts shows every procedure the versions it saw the first time, if the *)
(* concurrency control locks what is read.                                 *)
(***************************************************************************)
THEOREM CommandsFaithful == Spec => [](NoWrap /\ ReadLocks => ReplayFaithful)
<1>1. AllInv => (NoWrap /\ ReadLocks => ReplayFaithful)
  BY DEF AllInv, RunInv, Untouched, ReplayInv, CommandInv, ReplayFaithful
<1> QED
  BY <1>1, AllInvariant, PTL

(***************************************************************************)
(* ... and ends with the store that the epochs of thread 0 have left.  For *)
(* that reads need not be locked: what is replayed are the same updates in *)
(* the same order.                                                         *)
(***************************************************************************)
THEOREM CommandsRecovered == Spec => [](NoWrap => EpochsRecovered)
<1>1. AllInv => (NoWrap => EpochsRecovered)
  BY CommandRecovered DEF AllInv, RunInv, ReplayInv
<1> QED
  BY <1>1, AllInvariant, PTL
=============================================================================
