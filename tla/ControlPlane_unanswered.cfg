SPECIFICATION FairSpec
CONSTANTS
  AddressSpace = 5
  Mac = {m1}
  m1 = m1
  NoIp = NoIp
  NoMac = NoMac
  Xid = {x1}
  x1 = x1
  Traffic <- NoTraffic
  Requests <- FewRequests
  Commands <- LookupCommands
  MaxQueue = 1
  MaxPools = 1
PROPERTY CommandAnswered
CHECK_DEADLOCK FALSE
