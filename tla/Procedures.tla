----------------------------- MODULE Procedures -----------------------------
(***************************************************************************)
(* What an executor promises: the procedures of the source take effect on  *)
(* the whole store one at a time, each as it is written in                 *)
(* AtomicProcedures/, and the caller gets the reply of that moment.        *)
(***************************************************************************)
EXTENDS Workload

VARIABLES
  db,   \* the record of every row
  reply \* reply[t]: what thread t's last procedure answered, or <<>>

Init ==
  /\ db = Population
  /\ reply = [t \in Thread |-> <<>>]

Execute(t) ==
  \E p \in Source(t) :
    /\ reply' = [reply EXCEPT ![t] = ReplyTo(db, p)]
    /\ db' = Procedure(db, p)
    /\ UNCHANGED setting

Next == \E t \in Thread : Execute(t)

Spec == Init /\ [][Next]_<<setting, db, reply>>
=============================================================================
