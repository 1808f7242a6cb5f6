---------------------------- MODULE SerialStore ----------------------------
(***************************************************************************)
(* What a concurrency-control scheme of Cavalia promises to the stored     *)
(* procedures: however the threads interleave, each committed transaction  *)
(* takes effect at one instant between its first access and the return of  *)
(* CommitTransaction.  At that instant every column it has read holds the  *)
(* value it read, and all its writes appear together.                      *)
(*                                                                         *)
(* The module mentions no lock, no timestamp and no abort: an aborted      *)
(* attempt leaves no trace here.  The detailed modules (Occ, ...) are      *)
(* shown to implement Spec under a refinement mapping.                     *)
(***************************************************************************)
CONSTANTS
  Thread,    \* executor threads, each running one transaction at a time
  Record,    \* table records
  Column,    \* the units in which a record is read
  Value,     \* what a record may contain
  InitValue, \* the content the populator has loaded
  Fresh,     \* the records that exist only once a transaction inserts them
  Unread,    \* a column the transaction has not read
  Kept       \* a field of a record the transaction does not write

VARIABLES
  store,   \* store[r].value is the content of r, store[r].live its visibility
  outcome  \* the transaction that each thread has committed and not yet left

vars == <<store, outcome>>

(***************************************************************************)
(* A committed transaction: the columns it saw and the fields it wrote.    *)
(* One that saw and wrote nothing goes unnoticed.                          *)
(***************************************************************************)
Txn ==
  [seen  : [Record -> [Column -> Value \cup {Unread}]],
   wrote : [Record -> [value : Value \cup {Kept}, live : BOOLEAN \cup {Kept}]]]

NoTxn ==
  [seen  |-> [r \in Record |-> [c \in Column |-> Unread]],
   wrote |-> [r \in Record |-> [value |-> Kept, live |-> Kept]]]

Overwrite(old, new) == IF new = Kept THEN old ELSE new

(***************************************************************************)
(* x may commit now: what it saw is what the store holds.                  *)
(***************************************************************************)
Current(x) ==
  \A r \in Record, c \in Column : x.seen[r][c] \in {Unread, store[r].value}

Init ==
  /\ store = [r \in Record |-> [value |-> InitValue, live |-> r \notin Fresh]]
  /\ outcome = [t \in Thread |-> NoTxn]

Commit(t) ==
  LET x == outcome'[t] IN
  /\ outcome[t] = NoTxn /\ x # NoTxn
  /\ x \in Txn
  /\ outcome' = [outcome EXCEPT ![t] = x]
  /\ Current(x)
  /\ store' = [r \in Record |->
                 [value |-> Overwrite(store[r].value, x.wrote[r].value),
                  live  |-> Overwrite(store[r].live, x.wrote[r].live)]]

Leave(t) ==
  /\ outcome[t] # NoTxn
  /\ outcome' = [outcome EXCEPT ![t] = NoTxn]
  /\ UNCHANGED store

Next == \E t \in Thread : Commit(t) \/ Leave(t)

Spec == Init /\ [][Next]_vars
=============================================================================
