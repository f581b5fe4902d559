SPECIFICATION DraftSpec
CONSTANTS
  InOrder = TRUE
  EditsMidWrite = FALSE
  SyncsMidEdit = FALSE
  MaxEdits = 1
  MaxSubmits = 1
  MaxHides = 0
  MaxSyncs = 0
INVARIANTS
  DeletedStaysDeleted
CHECK_DEADLOCK FALSE
