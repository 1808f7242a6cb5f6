-------------------------------- MODULE Tpcc --------------------------------
(***************************************************************************)
(* The TPC-C benchmark: TpccPopulator.tpp, TpccSource.cpp, the procedures  *)
(* of AtomicProcedures/ as one step each, and those of ShardProcedures/ as *)
(* sequences of selections from a partition.                               *)
(*                                                                         *)
(* A row is its table and its primary columns; a record keeps the columns  *)
(* that some procedure changes or follows.  Names, addresses, dates and    *)
(* prices are left out.  So are ORDER_LINE and HISTORY, which are filled   *)
(* and never selected: what a procedure inserts does not reach an index    *)
(* under any transaction manager.  OrderStatus and StockLevel are never    *)
(* drawn (their frequencies are 0 and the index they need is not built).   *)
(***************************************************************************)
EXTENDS Integers, FiniteSetsExt, SequencesExt

CONSTANTS
  Null,           \* the record of a row that is not found
  Warehouses,     \* num_warehouses_
  Districts,      \* DISTRICTS_PER_WAREHOUSE
  Customers,      \* num_customers_per_district_, and the orders of each
  NewOrders,      \* num_new_orders_per_district_
  Items,          \* num_items_
  Quantity,       \* the stock at first, in MIN_QUANTITY..MAX_QUANTITY
  OlCnt,          \* ol_cnt_
  DrawnCustomers, \* bound: the customers that the source draws
  DrawnQtys,      \* bound: the quantities, in 1..MAX_OL_QUANTITY
  DrawnAmounts    \* bound: the payments

-----------------------------------------------------------------------------
ItemRow(i)                == <<"ITEM", i>>
WarehouseRow(w)           == <<"WAREHOUSE", w>>
DistrictRow(d, w)         == <<"DISTRICT", d, w>>
CustomerRow(c, d, w)      == <<"CUSTOMER", c, d, w>>
OrderRow(o, d, w)         == <<"ORDER", o, d, w>>
DistrictNewOrderRow(d, w) == <<"DISTRICT_NEW_ORDER", d, w>>
NewOrderRow(o, d, w)      == <<"NEW_ORDER", o, d, w>>
StockRow(i, w)            == <<"STOCK", i, w>>

\* The populator.
NullCarrier       == 0
InitialWYtd       == 300000
InitialDYtd       == 30000
InitialYtdPayment == 10
FirstNextOId      == Customers + 1
InitialNewOrderId == Customers - NewOrders + 1

WarehouseRecord == [w_ytd |-> InitialWYtd]
DistrictRecord  == [d_ytd |-> InitialDYtd, d_next_o_id |-> FirstNextOId]
CustomerRecord  == [c_balance |-> -InitialYtdPayment,
                    c_ytd_payment |-> InitialYtdPayment, c_payment_cnt |-> 1]
StockRecord     == [s_quantity |-> Quantity, s_ytd |-> 0, s_order_cnt |-> 0,
                    s_remote_cnt |-> 0]
\* Every customer has one order, and the last ones are not delivered yet.
OrderRecord(o)  ==
  [o_c_id |-> o,
   o_carrier_id |-> IF o >= InitialNewOrderId THEN NullCarrier ELSE 1]

Population ==
  LET W == 1..Warehouses
      DW == (1..Districts) \X W
      Everywhere == [r \in {ItemRow(i) : i \in 1..Items} |-> [i_id |-> r[2]]]
      OfW == [r \in {WarehouseRow(w) : w \in W} |-> WarehouseRecord]
      OfD == [r \in {DistrictRow(x[1], x[2]) : x \in DW} |-> DistrictRecord]
      OfC == [r \in {CustomerRow(c, x[1], x[2]) : c \in 1..Customers, x \in DW}
                |-> CustomerRecord]
      OfO == [r \in {OrderRow(o, x[1], x[2]) : o \in 1..Customers, x \in DW}
                |-> OrderRecord(r[2])]
      OfN == [r \in {NewOrderRow(o, x[1], x[2]) :
                       o \in InitialNewOrderId..Customers, x \in DW}
                |-> [o_id |-> r[2]]]
      First == [r \in {DistrictNewOrderRow(x[1], x[2]) : x \in DW}
                |-> [o_id |-> InitialNewOrderId]]
      OfS == [r \in {StockRow(i, w) : i \in 1..Items, w \in W} |-> StockRecord]
  IN Everywhere @@ OfW @@ OfD @@ OfC @@ OfO @@ OfN @@ First @@ OfS

-----------------------------------------------------------------------------
\* The source of thread t of n, and what it can draw.

\* "falls inside [min, max] but not equal to excluding": it may be equal to
\* it, and is never the number above.
GenerateIntegerExcluding(min, max, excluding) ==
  {IF k > excluding THEN k + 1 ELSE k : k \in min..(max - 1)}

SupplyWarehouses(w) ==
  {w} \union (IF Warehouses > 1 THEN GenerateIntegerExcluding(1, Warehouses, w)
              ELSE {})

DeliveryParams(w) == [type : {"DELIVERY"}, w_id : {w}, o_carrier_id : {1}]

PaymentParams(w) ==
  [type : {"PAYMENT"}, w_id : {w}, d_id : 1..Districts,
   c_id : DrawnCustomers, h_amount : DrawnAmounts]

\* The items of an order are different, the warehouses that supply them not.
NewOrderParams(w) ==
  {p \in [type : {"NEW_ORDER"}, w_id : {w}, d_id : 1..Districts,
          c_id : DrawnCustomers, i_ids : [1..OlCnt -> 1..Items],
          i_w_ids : [1..OlCnt -> SupplyWarehouses(w)],
          i_qtys : [1..OlCnt -> DrawnQtys]] : IsInjective(p.i_ids)}

Source(t, n) ==
  UNION {DeliveryParams(w) \union PaymentParams(w) \union NewOrderParams(w) :
           w \in {x \in 1..Warehouses : (x - 1) % n = t}}

-----------------------------------------------------------------------------
\* What the procedures write, given the record they have selected.

\* Mutant: the stock is filled up when it would be used up.
TakeStockToZero(s, qty, remote) ==
  [s_quantity   |-> IF s.s_quantity >= qty THEN s.s_quantity - qty
                    ELSE s.s_quantity + 91 - qty,
   s_ytd        |-> s.s_ytd + qty,
   s_order_cnt  |-> s.s_order_cnt + 1,
   s_remote_cnt |-> s.s_remote_cnt + IF remote THEN 1 ELSE 0]

\* The stock is filled up by 91 before it falls below 10.
TakeStock(s, qty, remote) ==
  [s_quantity   |-> IF s.s_quantity >= qty + 10 THEN s.s_quantity - qty
                    ELSE s.s_quantity + 91 - qty,
   s_ytd        |-> s.s_ytd + qty,
   s_order_cnt  |-> s.s_order_cnt + 1,
   s_remote_cnt |-> s.s_remote_cnt + IF remote THEN 1 ELSE 0]

TakeOrderId(d) == [d EXCEPT !.d_next_o_id = @ + 1]

PayWarehouse(w, amount) == [w EXCEPT !.w_ytd = @ + amount]
PayDistrict(d, amount)  == [d EXCEPT !.d_ytd = @ + amount]
PayCustomer(c, amount)  ==
  [c_balance |-> c.c_balance - amount,
   c_ytd_payment |-> c.c_ytd_payment + amount,
   c_payment_cnt |-> c.c_payment_cnt + 1]

\* The pointer to the oldest new order starts again at 1 if there is none.
NextNewOrder(first, found) == [o_id |-> IF found THEN first.o_id + 1 ELSE 1]
Carry(o, carrier) == [o EXCEPT !.o_carrier_id = carrier]
\* The sum of the order lines is not computed: the amount is 1.
Credit(c) == [c EXCEPT !.c_balance = @ + 1]

-----------------------------------------------------------------------------
\* AtomicProcedures: the store after the whole procedure, and its reply.

NewOrder(db, p) ==
  LET Stock(k) == StockRow(p.i_ids[k], p.i_w_ids[k])
      Line(r)  == CHOOSE k \in 1..OlCnt : Stock(k) = r
      d == DistrictRow(p.d_id, p.w_id)
  IN [r \in {Stock(k) : k \in 1..OlCnt} |->
        TakeStock(db[r], p.i_qtys[Line(r)], p.i_w_ids[Line(r)] # p.w_id)]
     @@ d :> TakeOrderId(db[d]) @@ db

Payment(db, p) ==
  LET w == WarehouseRow(p.w_id)
      d == DistrictRow(p.d_id, p.w_id)
      c == CustomerRow(p.c_id, p.d_id, p.w_id)
  IN w :> PayWarehouse(db[w], p.h_amount) @@ d :> PayDistrict(db[d], p.h_amount)
     @@ c :> PayCustomer(db[c], p.h_amount) @@ db

\* The order that a delivery takes from the district, if there is one.
OldestNewOrder(db, d, w) == db[DistrictNewOrderRow(d, w)].o_id
IsDue(db, d, w) == NewOrderRow(OldestNewOrder(db, d, w), d, w) \in DOMAIN db

Delivery(db, p) ==
  LET w == p.w_id
      Due == {d \in 1..Districts : IsDue(db, d, w)}
      First(d) == DistrictNewOrderRow(d, w)
      Order(d) == OrderRow(OldestNewOrder(db, d, w), d, w)
      Customer(d) == CustomerRow(db[Order(d)].o_c_id, d, w)
  IN [r \in {First(d) : d \in 1..Districts} |->
        NextNewOrder(db[r], IsDue(db, r[2], w))]
     @@ [r \in {Order(d) : d \in Due} |-> Carry(db[r], p.o_carrier_id)]
     @@ [r \in {Customer(d) : d \in Due} |-> Credit(db[r])]
     @@ db

Procedure(db, p) ==
  CASE p.type = "NEW_ORDER" -> NewOrder(db, p)
    [] p.type = "PAYMENT"   -> Payment(db, p)
    [] p.type = "DELIVERY"  -> Delivery(db, p)

ReplyTo(db, p) ==
  CASE p.type = "NEW_ORDER" ->
         Append(p.i_ids, db[DistrictRow(p.d_id, p.w_id)].d_next_o_id)
    [] p.type = "PAYMENT" ->
         <<db[WarehouseRow(p.w_id)].w_ytd, db[DistrictRow(p.d_id, p.w_id)].d_ytd>>
    [] p.type = "DELIVERY" ->
         [d \in 1..Districts |-> IF IsDue(db, d, p.w_id)
                                 THEN OldestNewOrder(db, d, p.w_id) ELSE -1]

-----------------------------------------------------------------------------
\* ShardProcedures: seen are the records selected so far, Null for a row that
\* was not found.  Select is the row selected next, or Null after the last
\* one; Store is what is written between the last selection and the next.

NewOrderSelect(p, seen) ==
  LET k == Len(seen) + 1
      rows == [j \in 1..OlCnt |-> ItemRow(p.i_ids[j])]
              \o [j \in 1..OlCnt |-> StockRow(p.i_ids[j], p.i_w_ids[j])]
              \o <<WarehouseRow(p.w_id), DistrictRow(p.d_id, p.w_id),
                   CustomerRow(p.c_id, p.d_id, p.w_id)>>
  IN IF k > Len(rows) THEN Null ELSE rows[k]

NewOrderStore(p, seen) ==
  LET k == Len(seen)
      j == k - OlCnt
  IN CASE j \in 1..OlCnt ->
            StockRow(p.i_ids[j], p.i_w_ids[j]) :>
              TakeStock(seen[k], p.i_qtys[j], p.i_w_ids[j] # p.w_id)
       [] j = OlCnt + 2 -> DistrictRow(p.d_id, p.w_id) :> TakeOrderId(seen[k])
       [] OTHER -> <<>>

NewOrderReply(p, seen) == Append(p.i_ids, seen[2 * OlCnt + 2].d_next_o_id)

PaymentRows(p) == <<WarehouseRow(p.w_id), DistrictRow(p.d_id, p.w_id),
                    CustomerRow(p.c_id, p.d_id, p.w_id)>>

PaymentSelect(p, seen) ==
  IF Len(seen) < 3 THEN PaymentRows(p)[Len(seen) + 1] ELSE Null

PaymentStore(p, seen) ==
  CASE seen = <<>> -> <<>>
    [] Len(seen) = 1 -> PaymentRows(p)[1] :> PayWarehouse(seen[1], p.h_amount)
    [] Len(seen) = 2 -> PaymentRows(p)[2] :> PayDistrict(seen[2], p.h_amount)
    [] Len(seen) = 3 -> PaymentRows(p)[3] :> PayCustomer(seen[3], p.h_amount)

PaymentReply(p, seen) == <<seen[1].w_ytd, seen[2].d_ytd>>

\* A delivery first selects the pointer and the new order of every district,
\* then the orders of the districts that had one, then their customers.
DueIn(seen) == SelectSeq([d \in 1..Districts |-> d], LAMBDA d : seen[2 * d] # Null)

DeliverySelect(p, seen) ==
  LET k == Len(seen) + 1
      j == k - 2 * Districts
      due == DueIn(seen)
  IN IF k <= 2 * Districts
     THEN IF k % 2 = 1 THEN DistrictNewOrderRow((k + 1) \div 2, p.w_id)
          ELSE NewOrderRow(seen[k - 1].o_id, k \div 2, p.w_id)
     ELSE CASE j <= Len(due) ->
                 OrderRow(seen[2 * due[j] - 1].o_id, due[j], p.w_id)
            [] j \in (Len(due) + 1)..(2 * Len(due)) ->
                 CustomerRow(seen[k - Len(due)].o_c_id, due[j - Len(due)], p.w_id)
            [] OTHER -> Null

DeliveryStore(p, seen) ==
  LET k == Len(seen)
      j == k - 2 * Districts
  IN IF j <= 0
     THEN IF k = 0 \/ k % 2 = 1 THEN <<>>
          ELSE DistrictNewOrderRow(k \div 2, p.w_id) :>
                 NextNewOrder(seen[k - 1], seen[k] # Null)
     ELSE LET due == DueIn(seen)
              row == DeliverySelect(p, SubSeq(seen, 1, k - 1))
          IN row :> IF j <= Len(due) THEN Carry(seen[k], p.o_carrier_id)
                    ELSE Credit(seen[k])

DeliveryReply(seen) ==
  [d \in 1..Districts |-> IF seen[2 * d] # Null THEN seen[2 * d - 1].o_id ELSE -1]

Select(p, seen) ==
  CASE p.type = "NEW_ORDER" -> NewOrderSelect(p, seen)
    [] p.type = "PAYMENT"   -> PaymentSelect(p, seen)
    [] p.type = "DELIVERY"  -> DeliverySelect(p, seen)

Store(p, seen) ==
  CASE p.type = "NEW_ORDER" -> NewOrderStore(p, seen)
    [] p.type = "PAYMENT"   -> PaymentStore(p, seen)
    [] p.type = "DELIVERY"  -> DeliveryStore(p, seen)

Reply(p, seen) ==
  CASE p.type = "NEW_ORDER" -> NewOrderReply(p, seen)
    [] p.type = "PAYMENT"   -> PaymentReply(p, seen)
    [] p.type = "DELIVERY"  -> DeliveryReply(seen)

\* Only a new order may be missing; the code follows every other record.
MayMiss(row) == row[1] = "NEW_ORDER"

-----------------------------------------------------------------------------
\* The partitions, of n.

WarehouseOf(row) == row[Len(row)]

\* What TpccShardTable says of a row: the items are in every partition.
IsReplication(row)     == row[1] = "ITEM"
GetPartitionId(row, n) ==
  IF row[1] = "ITEM" THEN 0 ELSE (WarehouseOf(row) - 1) % n

\* What the base class makes of it: the sum of the schema's partition columns,
\* one column of each table.
GetPartitionHashcode(row) ==
  IF row[1] \in {"ITEM", "STOCK"} THEN row[2] ELSE WarehouseOf(row)

\* The partition that a statement of p reads the row from.
StatementPartition(p, row, n) ==
  ((IF row[1] = "ITEM" THEN p.w_id ELSE WarehouseOf(row)) - 1) % n

\* Mutant: an order locks the partition of its own warehouse only.
GetPartitionIdsHome(p, n) == {(p.w_id - 1) % n}

\* The partitions that p locks.
GetPartitionIds(p, n) ==
  {(p.w_id - 1) % n}
  \union IF p.type = "NEW_ORDER"
         THEN {(p.i_w_ids[k] - 1) % n : k \in 1..OlCnt} ELSE {}

-----------------------------------------------------------------------------
\* The tables agree, whatever has run.  A warehouse has received what its
\* districts have, and they what their customers have paid; a customer has got
\* one for each of its orders that was delivered; stock, what was taken of it
\* and what it was filled up by add up; every order took as many lines.
BooksOf(db) ==
  LET W == 1..Warehouses
      D == 1..Districts
      C == 1..Customers
      Paid(c, d, w) == db[CustomerRow(c, d, w)].c_ytd_payment - InitialYtdPayment
      Got(d, w) == db[DistrictRow(d, w)].d_ytd - InitialDYtd
      Delivered(c, d, w) ==
        {o \in InitialNewOrderId..Customers :
           db[OrderRow(o, d, w)].o_c_id = c
           /\ db[OrderRow(o, d, w)].o_carrier_id # NullCarrier}
      Stock == {StockRow(i, w) : i \in 1..Items, w \in W}
      Taken(d, w) == db[DistrictRow(d, w)].d_next_o_id - FirstNextOId
  IN /\ \A w \in W :
          /\ db[WarehouseRow(w)].w_ytd - InitialWYtd
               = MapThenSumSet(LAMBDA d : Got(d, w), D)
          /\ \A d \in D :
               /\ Got(d, w) = MapThenSumSet(LAMBDA c : Paid(c, d, w), C)
               /\ \A c \in C :
                    LET r == db[CustomerRow(c, d, w)] IN
                      r.c_balance + r.c_ytd_payment
                        = Cardinality(Delivered(c, d, w))
     /\ \A r \in Stock :
          /\ db[r].s_quantity \in 10..100
          /\ (db[r].s_quantity + db[r].s_ytd - Quantity) % 91 = 0
          /\ db[r].s_remote_cnt <= db[r].s_order_cnt
     /\ MapThenSumSet(LAMBDA r : db[r].s_order_cnt, Stock)
          = OlCnt * MapThenSumSet(LAMBDA x : Taken(x[1], x[2]), D \X W)
=============================================================================
