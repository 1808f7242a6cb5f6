SPECIFICATION Spec
CONSTANTS
  SnapshotSchemes = {"SILOCK", "SIOCC", "MVOCC"}
  CertifySchemes = {}
  HybridSchemes = {}
  Thread = {t1, t2}
  Records = {1, 2}
  Hot = {1}
  Column = {c1, c2}
  RecycleLength = 1
  TsSpan = 16
  SnapshotBatch = 3
  SnapshotMaxTs = 3
  CertifyBatch = 2
  CertifyMaxTs = 4
  MvToThread = {u1, u2, u3}
  MvToIndexed = {1}
  MvToFresh = {}
  MvToMaxTs = 4
  Loader = Loader
  Nobody = Nobody
  Unused = Unused
SYMMETRY ThreadSymmetry
INVARIANT NoLostUpdate
