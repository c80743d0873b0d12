SPECIFICATION Spec
CONSTANTS
  Procs = {p1, p2}
  Hosts = {h1, h2}
  Devices = {d1, d2}
  s1 = s1
  s2 = s2
  s3 = s3
  s4 = s4
  Subnets <- ThreeSubnets
  Size = 4
  Empty = Empty
  NoName = NoName
  Overlap = "hosts"
  Commands <- AddDelRelease
  MaxKills = 0
  MaxErrors = 0
  MaxReleases = 1
SYMMETRY Symmetric
INVARIANTS
  TypeOK
  FreeOrHeld
  ReplyFits
  GatewayOfSubnet
PROPERTIES
  Refines
