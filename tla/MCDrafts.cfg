SPECIFICATION DraftFairSpec
CONSTANTS
  InOrder = TRUE
  EditsMidWrite = FALSE
  SyncsMidEdit = FALSE
  MaxEdits = 2
  MaxSubmits = 1
  MaxHides = 1
  MaxSyncs = 1
INVARIANTS
  TextSurvives
  BehindIsTold
PROPERTIES
  SaveSettles
CHECK_DEADLOCK FALSE
