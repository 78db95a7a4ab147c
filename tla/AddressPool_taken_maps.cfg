SPECIFICATION Spec
CONSTANTS
  AddressSpace = 3
  Mac = {m1}
  NoIp = NoIp
  NoMac = NoMac
  m1 = m1
INVARIANT TakenMapsTogether
