CONSTANTS
  Order = 3
  Key <- Keys
  r1 = r1
  r2 = r2
  Rid = {r1, r2}
  NoRid = NoRid
  NoNode = NoNode
  MaxPage = 16
  Scenario <- Scenarios
SPECIFICATION Spec
INVARIANTS SearchExact TreeShape
CHECK_DEADLOCK FALSE
