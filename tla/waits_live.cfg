SPECIFICATION FairSpec
CONSTANTS
  Scheme = {"OCC", "LOCK_WAIT", "SILO", "TO", "MVTO"}
  Thread = {t1, t2}
  TsSpan = 16
  OccFresh = {3}
  OccAccessType = {"READ_ONLY", "INSERT_ONLY", "DELETE_ONLY"}
  LockWaitIndexed = {1, 2}
  LockWaitShared = {1}
  LockWaitMaxAccess = 2
  LockWaitMaxEpoch = 1
  ToFresh = {}
  ToMaxTs = 4
  MvToIndexed = {1, 2}
  MvToMaxTs = 2
  SiloFresh = {}
  SiloAccessType = {"READ_ONLY", "DELETE_ONLY"}
  NotRead = NotRead
  Kept = Kept
  Loader = Loader
  Unused = Unused
PROPERTIES WaitsEnd Terminates AtomicUnderOcc
