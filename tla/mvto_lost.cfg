SPECIFICATION Spec
CONSTANTS
  Scheme = {"MVTO"}
  Thread = {t1, t2, t3}
  TsSpan = 16
  OccFresh = {}
  OccAccessType = {"READ_ONLY", "READ_WRITE", "INSERT_ONLY", "DELETE_ONLY"}
  LockWaitIndexed = {1}
  LockWaitShared = {1}
  LockWaitMaxAccess = 1
  LockWaitMaxEpoch = 2
  ToFresh = {}
  ToMaxTs = 3
  MvToIndexed = {1}
  MvToMaxTs = 3
  SiloFresh = {}
  SiloAccessType = {}
  NotRead = NotRead
  Kept = Kept
  Loader = Loader
  Unused = Unused
SYMMETRY ThreadSymmetry
INVARIANT NoWriteBelowRead
