CONSTANTS
  Txn = {t1, t2}
  Value = {a, b}
  Empty = Empty
  NoTxn = NoTxn
  SlotsPerPage = 1
  LogBufferSize = 2
  CompositeIndex = FALSE
  InitPages = 1
  MaxPages = 2
  MaxOps = 3
  MaxActive = 1
  MaxAborts = 1
  MaxCrashes = 2
  MaxRecrashes = 1
  MaxEvictions = 1
SPECIFICATION FairSpec
CHECK_DEADLOCK FALSE
INVARIANTS Durable SerialIsCommitted
PROPERTIES RecoveryCompletes
