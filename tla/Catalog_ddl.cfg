CONSTANTS
  Table = {t}
  Index = {i, w}
  Wide = {w}
  Key = {k, l}
  NoKey = NoKey
  Slots = 2
  NoTable = NoTable
  Absent = Absent
  Blank = Blank
  Ready = Ready
  Torn = Torn
  NoDdl = NoDdl
  NoInsert = NoInsert
  NoIndex = NoIndex
  MaxDdl = 5
  MaxStarts = 3
  MaxLog = 2
SPECIFICATION Spec
CHECK_DEADLOCK FALSE
INVARIANTS   FilesExact 
PROPERTIES SurvivesDdl 
