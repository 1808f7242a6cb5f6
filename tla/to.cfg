SPECIFICATION Spec
CONSTANTS
  Thread = {t1, t2, t3}
  Indexed = {1, 2}
  Fresh = {3}
  MaxAccess = 2
  Batch = 1
  MaxTs = 3
SYMMETRY ThreadSymmetry
INVARIANTS TypeOK NoCommitBuffered QueuesAgree ReadsInTsOrder
