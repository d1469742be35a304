CONSTANTS
  Txn = {t1, t2}
  NoTxn = NoTxn
  Slots = 2
  MaxPages = 3
  MaxOps = 6
SPECIFICATION Spec
CHECK_DEADLOCK FALSE
INVARIANT SpaceExact
