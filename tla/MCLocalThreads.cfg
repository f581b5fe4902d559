SPECIFICATION Spec
CONSTANTS
  q1 = q1
  q2 = q2
  p1 = p1
  p2 = p2
  a = a
  b = b
  None = None
  Requests = {q1, q2}
  Pairs = {p1, p2}
  Pulls = {}
  Texts = {a}
  EditsMidSubmit = FALSE
  MaxReviews = 2
  MaxEntities = 3
INVARIANTS
  EnvelopeBelongs
  AcknowledgedStays
PROPERTIES
  TextLeavesByHandOrLands
