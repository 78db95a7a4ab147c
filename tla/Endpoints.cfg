SPECIFICATION FairSpec
CONSTANTS
  Endpoint = {e1, e2}
  Visitor = {v1}
  Elsewhere = elsewhere
  MaxSent = 2
INVARIANTS FacingNeverStand MessagesInOrder
PROPERTY StopReturns
CHECK_DEADLOCK FALSE
