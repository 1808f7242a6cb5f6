SPECIFICATION Spec
CONSTANTS
  a = a
  b = b
  Thread = {t1, t2}
  Column = {c1, c2}
  Value = {a, b}
  InitValue = a
  Unread = Unread
  Kept = Kept
  Indexed = {1, 2}
  Fresh = {3}
  AccessType = {"READ_ONLY", "READ_WRITE", "INSERT_ONLY"}
  MaxAccess = 2
  Batch = 1
  TsSpan = 8
  MaxEpoch = 2
INVARIANTS TypeOK LockAgreement CommitTsAboveAccess ReadsStillCurrent
PROPERTIES TimestampsAdvance ConflictsInTsOrder ImplementsSerialStore
SYMMETRY Symmetry
