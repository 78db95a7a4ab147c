SPECIFICATION FairSpec
CONSTANTS
  MaxStarts = 3
  MaxFds = 3
INVARIANTS TypeOK NoStaleReply OnePlace
PROPERTIES ConnectedIsServed StartsInAnyOrder
CHECK_DEADLOCK FALSE
