SPECIFICATION Spec
CONSTANTS
  Thread = {t1, t2}
  Unread = Unread
  Kept = Kept
  Loader = Loader
  Indexed = {1, 2}
  Shared = {1}
  Fresh = {3}
  MaxAccess = 2
  Batch = 1
  TsSpan = 16
  MaxEpoch = 2
SYMMETRY ThreadSymmetry
INVARIANTS TypeOK WaitsForYounger ListsAgree CommitTsAboveAccess
PROPERTIES ImplementsSerialStore
