SPECIFICATION FairSpec
CONSTANTS
  Pulls = {p1}
  Slots = {t1, t2}
  MaxStaleTicks = 2
  MaxMoves = 3
  MaxFailures = 2
  MaxRestarts = 1
  None = None
INVARIANTS
  SameTagSameMeta
  OutageIsTold
  KeyFitsPull
PROPERTIES
  ListMovesOn
  PendingIsNotForever
