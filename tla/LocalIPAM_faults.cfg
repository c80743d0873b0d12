SPECIFICATION Spec
CONSTANTS
  Procs = {p1, p2}
  Containers = {c1, c2}
  Bases <- TwoBases
  Size = 4
  NoAddr = NoAddr
  NoOne = NoOne
  MaxFaults = 2
SYMMETRY Symmetric
INVARIANTS
  TypeOK
  IInv
  UniqueGrants
  GrantsBacked
  RepliesTrue
  OneRecordPerContainer
  
PROPERTIES
  Refines
  StableGrant
