CONSTANTS
  Txn = {t1, t2}
  Tab = Tab
  NumRows = 2
  Value = {a, b}
  Empty = Empty
  Unknown = Unknown
  MaxOps = 2
  MaxTxns = 3
SPECIFICATION Spec
CHECK_DEADLOCK FALSE
INVARIANT Isolated
