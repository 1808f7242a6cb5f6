SPECIFICATION Spec
CONSTANTS
  LogType = {"VALUE", "COMMAND"}
  ReadLocks = TRUE
  Images = {"after", "before"}
  ThreadNum = 2
  Record = {1, 2}
  Procedures <- SmallProcedures
  Batch = 2
  FirstTest = {"cmp_equal", "=="}
  TsSpan = 16
  MaxEpoch = 3
INVARIANTS TypeOK LogComplete LastFlushedWins ReplayFaithful EpochsRecovered
