SPECIFICATION FairSpec
CONSTANTS
  Null = Null
  Warehouses = 3
  Districts = 1
  Customers = 2
  NewOrders = 1
  Items = 1
  Quantity = 11
  OlCnt = 1
  DrawnCustomers = {2}
  DrawnQtys = {1}
  DrawnAmounts = {1}
  Accounts = 4
  Balance = 100000
  DrawnAccounts = {1, 2, 3}
  Settings <- SmallSettings
INVARIANTS TypeOK BooksBalance
PROPERTIES ImplementsProcedures Joins
