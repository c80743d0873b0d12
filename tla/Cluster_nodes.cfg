SPECIFICATION Spec
CONSTANTS
  Nodes = {n1, n2}
  LastBit = 2
  None = None
  Torn = Torn
  MaxFaults = 1
  Containers = {c1, c2}
  Addrs <- AllAddrs
  NoOne = NoOne
  NoAddr = NoAddr
  Net <- NetOf
SYMMETRY Symmetric
INVARIANTS
  TypeOK
  
  LiveInSubnet
PROPERTIES
  NodesServe
