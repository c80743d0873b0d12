SPECIFICATION Spec
CONSTANTS
  Nodes = {n1, n2, n3}
  LastBit = 3
  None = None
  Torn = Torn
  MaxFaults = 2
SYMMETRY Symmetric
INVARIANTS
  TypeOK
  DistinctUnlessLost
  BackedUnlessLost
  OkHasSubnet
PROPERTIES
  SubnetKept
