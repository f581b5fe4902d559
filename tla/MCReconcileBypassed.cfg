CONSTANTS
  Keys = {k1}
  Texts = {"a", "b"}
  Heads <- FewHeads
  Trees <- FewTrees
  MaxMoves = 2
  SearchRadius = 2
  StartSearchRadius = 1
  ContextDepth = 3
  CleanContextFloor = 2
SPECIFICATION Spec
INVARIANTS
  MovedHeadsAreReconciled
CHECK_DEADLOCK FALSE
