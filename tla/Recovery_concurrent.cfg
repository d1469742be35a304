CONSTANTS
  Txn = {t1, t2}
  Value = {a, b}
  Empty = Empty
  NoTxn = NoTxn
  SlotsPerPage = 1
  LogBufferSize = 2
  CompositeIndex = TRUE
  InitPages = 2
  MaxPages = 2
  MaxOps = 3
  MaxActive = 2
  MaxAborts = 1
  MaxCrashes = 1
  MaxRecrashes = 0
  MaxEvictions = 1
SYMMETRY Symmetric
SPECIFICATION Spec
CHECK_DEADLOCK FALSE
INVARIANT RollbackOwnsRows
