SPECIFICATION Spec
CONSTANTS
  AddressSpace = 6
  Mac = {m1}
  m1 = m1
  NoIp = NoIp
  NoMac = NoMac
  Xid = {x1}
  x1 = x1
  Traffic <- ClientTraffic
  Requests <- SomeRequests
  MaxQueue = 1
  MaxPools = 2
INVARIANT PoolsDisjoint
CHECK_DEADLOCK FALSE
