SPECIFICATION Spec
CONSTANTS
  INT32_MAX = 31
  INT64_MAX = 127
  FloatBits = 4
  FloatUnit = 2
  FLOAT_START = 384
  JOIN_BUFFER_ROWS = 2
  SORT_CHUNK_ROWS = 2
  Databases <- MCDatabases
  Scripts <- MCScripts
CHECK_DEADLOCK FALSE
INVARIANTS ParsesBack AnswerExact SurvivesUnless ErrorsJustified DmlExact IndexesMatchRows
