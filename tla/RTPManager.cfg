CONSTANTS
  PortMin = 1025
  PortMax = 1033
  Owners = {o1, o2, o3}
SYMMETRY OwnerSymmetry
SPECIFICATION MCRTPSpec
INVARIANTS
  RTPTypeOK
  MarksAreOpenSockets
  NoFalseExhaustion
PROPERTIES
  ReusedLast
