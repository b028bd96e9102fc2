CONSTANTS
  Quantity <- MCQuantity
  Time <- MCTime
  MaxFills = 5
  None = None
SPECIFICATION Spec
INVARIANTS
  TypeOK
  ImbalanceIsFlagged
  MatchesReference
CHECK_DEADLOCK FALSE
