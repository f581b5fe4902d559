SPECIFICATION Spec
CONSTANTS
  dA = dA
  dB = dB
  q1 = q1
  q2 = q2
  pr = pr
  lr = lr
  k1 = k1
  k2 = k2
  b1 = b1
  b2 = b2
  None = None
  Daemons = {dA}
  Requests = {q1, q2}
  DaemonOf <- OneDaemon
  Pulls = {pr}
  Locals = {lr}
  CompareKeys = {k1, k2}
  HeadsOf <- PullMoves
  Capped = {k2}
  Blobs = {b1, b2}
  BlobsOf <- SharedBlob
  BeyondCap = {b2}
  ReclaimBlobs = TRUE
  PushMidFetch = FALSE
INVARIANTS
  HalvesSayWhatTheyAre
  FoundBytesStay
  SnapshotsAreHonest
PROPERTIES
  PromiseSpec
