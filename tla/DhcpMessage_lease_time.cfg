SPECIFICATION FairSpec
CONSTANTS
  LittleEndian = TRUE
  SnameLength = 2
  FileLength = 3
  Sent <- SomeMessages
  Addresses <- SomeAddresses
INVARIANT LeaseTimeIsUnderstood
CHECK_DEADLOCK FALSE
