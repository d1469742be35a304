CONSTANTS
  Session = {s1, s2}
  NoSession = NoSession
  Blank = Blank
  Capacity = 2
  MaxRecords = 4
SPECIFICATION Spec
INVARIANTS LogExact FlushedUnlessRaced
