SPECIFICATION Spec
CONSTANTS
  Slots = {s1}
  MaxHeads = 2
  Summaries = {remark, approval}
  Comments = {c1}
  Approving = {approval}
  Viewer = bot
  Author = bot
  Broker = TRUE
  SerialSubmits = TRUE
  MaxReviews = 2
  MaxReplies = 1
  MaxDrafts = 2
  None = None
INVARIANTS
  PostedOncePerHead
  ConfirmedIsJournalled
PROPERTIES
  DraftGoesWithItsReview
