SPECIFICATION FairSpec
CONSTANTS
  LittleEndian = TRUE
  SnameLength = 2
  FileLength = 3
  Sent <- SomeMessages
  Addresses <- SomeAddresses
INVARIANTS TypeOK ReadsWhatWasSent RefusesOnlyIllegal AcceptsOnlyLegalOrShort
           StaysInside ReplyIsUnderstood OptionsSurvive
PROPERTY ParseEnds
CHECK_DEADLOCK FALSE
