SPECIFICATION FilesSpec
CONSTANTS
  None = None
  Around = 1
  Step = 1
  Histories <- Synced
  MaxScript = 5
  t1 = t1
  t2 = t2
  t3 = t3
  Texts <- Typed
  Reopens = FALSE
  MaxComments = 2
  MaxTurns = 1
INVARIANTS
  HeadIsOfItsComments
CHECK_DEADLOCK FALSE
