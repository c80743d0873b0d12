SPECIFICATION Spec
CONSTANTS
  Procs = {p1}
  Hosts = {h1, h2}
  Devices = {d1, d2}
  s1 = s1
  s2 = s2
  s3 = s3
  s4 = s4
  Subnets <- FourSubnets
  Size = 3
  Empty = Empty
  NoName = NoName
  Overlap = "none"
  Commands <- AddDelCheck
  MaxKills = 1
  MaxErrors = 1
  MaxReleases = 0
SYMMETRY Symmetric
INVARIANTS
  
  DevicesInSubnet
PROPERTIES
  DeviceStable
