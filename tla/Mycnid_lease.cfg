SPECIFICATION Spec
CONSTANTS
  Nodes = {n1, n2}
  LastBit = 2
  None = None
  Torn = Torn
  MaxFaults = 0
SYMMETRY Symmetric
INVARIANTS
  DistinctUnlessOverwritten
