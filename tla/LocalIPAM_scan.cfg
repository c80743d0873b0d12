SPECIFICATION FairSpec
CONSTANTS
  Procs = {p1, p2}
  Containers = {c1, c2, c3}
  Bases <- OneBase
  Size = 4
  NoAddr = NoAddr
  NoOne = NoOne
  MaxFaults = 0
PROPERTIES
  NextFit
  NoFalseExhaustion
  
