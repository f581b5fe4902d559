CONSTANTS
  Commits = {"m0", "m1", "a1", "a2", "a3", "o1"}
  Blobs = {"b1", "b2", "b3", "b4", "b5"}
  Binary = {"b5"}
  Tree <- Trees
  Paths = {"g", "p", "q", "x"}
  Changed <- InOrder
  Sections <- Prints
  Ancestors <- History
  Branches = {"main", "feature"}
  Goes <- Moves
  Beginnings <- AtFirst
  NoRef = "gone"
  Reviews = {"r1", "r2"}
  BaseOf <- Bases
  HeadOf <- HeadBranches
  Syncs = {s1, s2}
  ReviewOf <- Subjects
  MaxMoves = 0
  MaxSyncs = 1
  MaxFaults = 0
SPECIFICATION Spec
INVARIANTS
  PinsHaveAReview
CHECK_DEADLOCK FALSE
