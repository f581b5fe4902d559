SPECIFICATION Spec
CONSTANTS
  dA = dA
  dB = dB
  q1 = q1
  q2 = q2
  pr = pr
  lr = lr
  k1 = k1
  k2 = k2
  b1 = b1
  b2 = b2
  None = None
  Daemons = {dA}
  Requests = {q1, q2}
  DaemonOf <- OneDaemon
  Pulls = {pr}
  Locals = {lr}
  CompareKeys = {k1, k2}
  HeadsOf <- PullMoves
  Capped = {}
  Blobs = {}
  BlobsOf <- NoBlobs
  BeyondCap = {}
  ReclaimBlobs = FALSE
  PushMidFetch = TRUE
INVARIANTS
  HalfIsItsComparison
