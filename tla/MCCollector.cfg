SPECIFICATION Spec
CONSTANTS
  oA = oA
  oB = oB
  eA = eA
  eB = eB
  None = None
  Owners = {oA, oB}
  EmailOf <- TwoPeople
  MaxEvents = 4
INVARIANTS
  RowsBelongToTheirHuman
PROPERTIES
  AttributionStays
  BypassIsFound
  LandedIsCleared
CHECK_DEADLOCK FALSE
