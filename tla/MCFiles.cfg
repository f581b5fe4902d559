SPECIFICATION FilesSpec
CONSTANTS
  None = None
  Around = 1
  Step = 1
  Histories <- All
  MaxScript = 5
  t1 = t1
  t2 = t2
  t3 = t3
  Texts <- Typed
  Reopens = FALSE
  MaxComments = 1
  MaxTurns = 1
INVARIANTS
  EachLineOnce
  NothingWrittenIsHidden
  CapturedAsShown
  TextIsKept
SYMMETRY Alike
CHECK_DEADLOCK FALSE
