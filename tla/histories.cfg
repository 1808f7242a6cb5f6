SPECIFICATION Spec
CONSTANTS
  SnapshotSchemes = {"SILOCK", "SIOCC", "MVOCC"}
  CertifySchemes = {"TVLOCK", "MVLOCK", "MVLOCK_WAIT"}
  HybridSchemes = {"LOCK", "DBX", "RTM", "OCC_RTM", "LOCK_RTM"}
  Thread = {t1, t2}
  Records = {1, 2}
  Hot = {1}
  Column = {c1, c2}
  RecycleLength = 1
  TsSpan = 16
  SnapshotBatch = 2
  SnapshotMaxTs = 3
  CertifyBatch = 2
  CertifyMaxTs = 4
  MvToThread = {u1, u2, u3}
  MvToIndexed = {1}
  MvToFresh = {2}
  MvToMaxTs = 4
  Loader = Loader
  Nobody = Nobody
  Unused = Unused
SYMMETRY ThreadSymmetry
INVARIANTS TypeOK VersionsKept SnapshotUnlessInFlight NoUpdateLost ReadsInCommitOrder ReadsInTsOrder LocksAgree WaitsInOrder
