----------------------------- MODULE Smallbank ------------------------------
(***************************************************************************)
(* The Smallbank benchmark: SmallbankPopulator.tpp, SmallbankSource.cpp,   *)
(* the procedures of AtomicProcedures/ as one step each, and those of      *)
(* ShardProcedures/ as sequences of selections from a partition.           *)
(*                                                                         *)
(* Amounts are counted in tenths.  Those of the procedures are fixed in    *)
(* the source; a balance is not checked before it is taken from, in        *)
(* SendPayment and TransactSavings the check is commented out.             *)
(***************************************************************************)
EXTENDS Integers, FiniteSetsExt, SequencesExt

CONSTANTS
  Null,
  Accounts,     \* num_accounts_
  Balance,      \* the balances at first, in MIN_BALANCE..MAX_BALANCE
  DrawnAccounts \* bound: the accounts that the source draws

AccountsRow(c) == <<"ACCOUNTS", c>>
SavingsRow(c)  == <<"SAVINGS", c>>
CheckingRow(c) == <<"CHECKING", c>>

Population ==
  [r \in {AccountsRow(c) : c \in 1..Accounts} |-> [custid |-> r[2]]]
  @@ [r \in {SavingsRow(c) : c \in 1..Accounts}
             \union {CheckingRow(c) : c \in 1..Accounts} |-> [bal |-> Balance]]

-----------------------------------------------------------------------------
\* The source of thread t of n, and what it can draw.

SingleTypes == {"BALANCE", "DEPOSIT_CHECKING", "TRANSACT_SAVINGS", "WRITE_CHECK"}
PairTypes   == {"AMALGAMATE", "SEND_PAYMENT"}

Source(t, n) ==
  LET Own == {c \in DrawnAccounts : (c - 1) % n = t} IN
  [type : SingleTypes, custid : Own]
  \union {p \in [type : PairTypes, custid_0 : Own, custid_1 : DrawnAccounts] :
            p.custid_0 # p.custid_1}

Amount(p) ==
  CASE p.type = "DEPOSIT_CHECKING" -> 13
    [] p.type = "SEND_PAYMENT"     -> 50
    [] p.type = "TRANSACT_SAVINGS" -> 202
    [] p.type = "WRITE_CHECK"      -> 50

\* A check above the balance costs 1 more.  The balance is that of both
\* accounts, and all of it goes to the checking account.
Checked(balance, amount) ==
  IF balance < amount THEN balance - (amount + 10) ELSE balance - amount

Add(r, amount) == [bal |-> r.bal + amount]

-----------------------------------------------------------------------------
\* AtomicProcedures: the store after the whole procedure, and its reply.

SavingOf(db, c)   == db[SavingsRow(c)].bal
CheckingOf(db, c) == db[CheckingRow(c)].bal
SetSaving(c, bal)   == SavingsRow(c) :> [bal |-> bal]
SetChecking(c, bal) == CheckingRow(c) :> [bal |-> bal]

Amalgamate(db, p) ==
  SetSaving(p.custid_0, 0) @@ SetChecking(p.custid_0, 0)
  @@ SetChecking(p.custid_1, CheckingOf(db, p.custid_1) + SavingOf(db, p.custid_0)
                               + CheckingOf(db, p.custid_0))

SendPayment(db, p) ==
  SetChecking(p.custid_0, CheckingOf(db, p.custid_0) - Amount(p))
  @@ SetChecking(p.custid_1, CheckingOf(db, p.custid_1) + Amount(p))

DepositChecking(db, p) ==
  SetChecking(p.custid, CheckingOf(db, p.custid) + Amount(p))

TransactSavings(db, p) ==
  SetSaving(p.custid, SavingOf(db, p.custid) - Amount(p))

WriteCheck(db, p) ==
  SetChecking(p.custid, Checked(SavingOf(db, p.custid) + CheckingOf(db, p.custid),
                                Amount(p)))

Procedure(db, p) ==
  CASE p.type = "AMALGAMATE"       -> Amalgamate(db, p) @@ db
    [] p.type = "SEND_PAYMENT"     -> SendPayment(db, p) @@ db
    [] p.type = "DEPOSIT_CHECKING" -> DepositChecking(db, p) @@ db
    [] p.type = "TRANSACT_SAVINGS" -> TransactSavings(db, p) @@ db
    [] p.type = "WRITE_CHECK"      -> WriteCheck(db, p) @@ db
    [] p.type = "BALANCE"          -> db

ReplyTo(db, p) ==
  CASE p.type = "AMALGAMATE" -> <<>>
    [] p.type = "SEND_PAYMENT" -> <<p.custid_0, p.custid_1, Amount(p)>>
    [] p.type \in {"DEPOSIT_CHECKING", "WRITE_CHECK"} ->
         <<p.custid, CheckingOf(Procedure(db, p), p.custid)>>
    [] p.type = "TRANSACT_SAVINGS" ->
         <<p.custid, SavingOf(Procedure(db, p), p.custid)>>
    [] p.type = "BALANCE" -> <<SavingOf(db, p.custid) + CheckingOf(db, p.custid)>>

-----------------------------------------------------------------------------
\* ShardProcedures: the rows that a procedure selects, in their order; what it
\* writes between the last selection and the next; its reply.  seen are the
\* records it has selected.

Rows(p) ==
  CASE p.type = "AMALGAMATE" ->
         <<AccountsRow(p.custid_0), AccountsRow(p.custid_1),
           SavingsRow(p.custid_0), CheckingRow(p.custid_0),
           CheckingRow(p.custid_1)>>
    [] p.type = "SEND_PAYMENT" ->
         <<AccountsRow(p.custid_0), AccountsRow(p.custid_1),
           CheckingRow(p.custid_0), CheckingRow(p.custid_1)>>
    [] p.type = "DEPOSIT_CHECKING" ->
         <<AccountsRow(p.custid), CheckingRow(p.custid)>>
    [] p.type = "TRANSACT_SAVINGS" ->
         <<AccountsRow(p.custid), SavingsRow(p.custid)>>
    [] p.type \in {"WRITE_CHECK", "BALANCE"} ->
         <<AccountsRow(p.custid), SavingsRow(p.custid), CheckingRow(p.custid)>>

Select(p, seen) ==
  IF Len(seen) < Len(Rows(p)) THEN Rows(p)[Len(seen) + 1] ELSE Null

AmalgamateStore(p, seen) ==
  CASE Len(seen) = 4 -> SavingsRow(p.custid_0) :> [bal |-> 0]
                        @@ CheckingRow(p.custid_0) :> [bal |-> 0]
    [] Len(seen) = 5 -> CheckingRow(p.custid_1) :>
                          Add(seen[5], seen[3].bal + seen[4].bal)
    [] OTHER -> <<>>

\* The other procedures write after their last selection.
SendPaymentStore(p, seen) ==
  CheckingRow(p.custid_0) :> Add(seen[3], -Amount(p))
  @@ CheckingRow(p.custid_1) :> Add(seen[4], Amount(p))

DepositCheckingStore(p, seen) == CheckingRow(p.custid) :> Add(seen[2], Amount(p))

TransactSavingsStore(p, seen) == SavingsRow(p.custid) :> Add(seen[2], -Amount(p))

WriteCheckStore(p, seen) ==
  CheckingRow(p.custid) :> [bal |-> Checked(seen[2].bal + seen[3].bal, Amount(p))]

Store(p, seen) ==
  IF p.type = "AMALGAMATE" THEN AmalgamateStore(p, seen)
  ELSE IF Len(seen) < Len(Rows(p)) THEN <<>>
  ELSE CASE p.type = "SEND_PAYMENT"     -> SendPaymentStore(p, seen)
         [] p.type = "DEPOSIT_CHECKING" -> DepositCheckingStore(p, seen)
         [] p.type = "TRANSACT_SAVINGS" -> TransactSavingsStore(p, seen)
         [] p.type = "WRITE_CHECK"      -> WriteCheckStore(p, seen)
         [] p.type = "BALANCE"          -> <<>>

BalanceReply(seen) == <<seen[2].bal + seen[3].bal>>

Reply(p, seen) ==
  CASE p.type = "AMALGAMATE" -> <<>>
    [] p.type = "SEND_PAYMENT" -> <<p.custid_0, p.custid_1, Amount(p)>>
    [] p.type = "DEPOSIT_CHECKING" -> <<p.custid, seen[2].bal + Amount(p)>>
    [] p.type = "TRANSACT_SAVINGS" -> <<p.custid, seen[2].bal - Amount(p)>>
    [] p.type = "WRITE_CHECK" ->
         <<p.custid, Checked(seen[2].bal + seen[3].bal, Amount(p))>>
    [] p.type = "BALANCE" -> BalanceReply(seen)

\* The code follows every record that it selects.
MayMiss(row) == FALSE

-----------------------------------------------------------------------------
\* The partitions, of n.

\* What SmallbankShardTable says of a row.
IsReplication(row)     == FALSE
GetPartitionId(row, n) == (row[2] - 1) % n

\* What the base class makes of it: no schema has partition columns.
GetPartitionHashcode(row) == 0

StatementPartition(p, row, n) == (row[2] - 1) % n

GetPartitionIds(p, n) ==
  {(c - 1) % n : c \in IF p.type \in PairTypes THEN {p.custid_0, p.custid_1}
                       ELSE {p.custid}}
=============================================================================
