SPECIFICATION FairSpec
CONSTANTS
  Procs = {p1}
  Containers = {c1, c2, c3}
  Bases <- TwoBases
  Size = 3
  NoAddr = NoAddr
  NoOne = NoOne
  MaxFaults = 2
PROPERTIES
  CallsReturn
