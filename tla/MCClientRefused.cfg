SPECIFICATION CacheSpec
CONSTANTS
  Nothing = Nothing
  Replies = {a, b}
  Paths = {p, q}
  Retypes = FALSE
  EarlyToggles = FALSE
  AnsweredInOrder = TRUE
  MaxWrites = 3
  MaxPullSyncs = 1
INVARIANTS
  RefusedMarksGo
CHECK_DEADLOCK FALSE
