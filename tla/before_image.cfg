SPECIFICATION Spec
CONSTANTS
  LogType = {"VALUE"}
  ReadLocks = TRUE
  Images = {"before"}
  ThreadNum = 2
  Record = {1, 2}
  Procedures <- SmallProcedures
  Batch = 1
  FirstTest = {"=="}
  TsSpan = 16
  MaxEpoch = 1
INVARIANT StoreRecovered
