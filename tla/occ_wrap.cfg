SPECIFICATION Spec
CONSTANTS
  a = a
  b = b
  Thread = {t1, t2}
  Column = {c1}
  Value = {a, b}
  InitValue = a
  Unread = Unread
  Kept = Kept
  Indexed = {1}
  Fresh = {}
  AccessType = {"READ_WRITE"}
  MaxAccess = 1
  Batch = 1
  TsSpan = 2
  MaxEpoch = 2
INVARIANT CommitTsAboveAccess
