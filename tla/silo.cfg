SPECIFICATION Spec
CONSTANTS
  Thread = {t1, t2}
  Column = {c1, c2}
  Unread = Unread
  Loader = Loader
  Indexed = {1, 2}
  Fresh = {3}
  AccessType = {"READ_ONLY", "READ_WRITE", "INSERT_ONLY", "DELETE_ONLY"}
  MaxAccess = 2
  Batch = 1
  TsSpan = 16
  MaxEpoch = 2
INVARIANTS TypeOK Serializable EpochsInSerialOrder DependenciesInTsOrder
SYMMETRY Symmetry
