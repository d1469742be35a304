CONSTANTS
  PoolSize = 2
  TableFile = {t}
  IndexFile = {i, j}
  NumFds = 1
  NumPages = 3
  Handle = {h1, h2}
  Data = {a}
  Zero = Zero
  Absent = Absent
  NoFile = NoFile
  NoPage = NoPage
  NoFrame = NoFrame
  MaxErrors = 1
SPECIFICATION Spec
CHECK_DEADLOCK FALSE
INVARIANTS PoolExact FramesAccounted
PROPERTIES ImplementsPageStore
