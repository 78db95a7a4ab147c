SPECIFICATION FairSpec
CONSTANTS
  AddressSpace = 5
  Mac = {m1}
  m1 = m1
  NoIp = NoIp
  NoMac = NoMac
  Xid = {x1}
  x1 = x1
  Traffic <- SomeTraffic
  Requests <- SomeRequests
  Commands <- AllCommands
  MaxQueue = 1
  MaxPools = 2
INVARIANTS TypeOK OneUnderWay AnswerTruthful
PROPERTIES ImplementsPoolService AnsweredUnless
CHECK_DEADLOCK FALSE
