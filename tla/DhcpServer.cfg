SPECIFICATION FairSpec
CONSTANTS
  AddressSpace = 5
  Mac = {m1, m2}
  m1 = m1
  m2 = m2
  NoIp = NoIp
  NoMac = NoMac
  Xid = {x1, x2}
  x1 = x1
  x2 = x2
  Traffic <- AllTraffic
  Requests <- SomeRequests
  MaxQueue = 2
  MaxPools = 2
INVARIANTS TypeOK ChecksStillHold TerminatesOnlyWhen OverlapOnlyByEnclosure OffersExclusive
PROPERTIES AckNamesOwnLease ImplementsLeases DiscoverAnswered
CHECK_DEADLOCK FALSE
