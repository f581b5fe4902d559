SPECIFICATION Spec
CONSTANTS
  q1 = q1
  q2 = q2
  p1 = p1
  p2 = p2
  a = a
  b = b
  None = None
  Requests = {q1, q2}
  Pairs = {p1}
  Pulls = {7}
  Texts = {a}
  EditsMidSubmit = FALSE
  MaxReviews = 1
  MaxEntities = 0
PROPERTIES
  FrozenStays
