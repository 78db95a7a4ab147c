SPECIFICATION FairSpec
CONSTANTS
  AddressSpace = 4
  Mac = {m1, m2}
  NoIp = NoIp
  NoMac = NoMac
  m1 = m1
  m2 = m2
INVARIANTS TypeOK OneHolderPerAddress ReservationsHonoured RangeAccounted
PROPERTIES RangeExclusionComplete ImplementsLeases LoopsTerminate
