SPECIFICATION FairSpec
CONSTANTS
  Procs = {p1}
  Maps = {lxc_map, node_vxlan_map}
  Lxc = lxc_map
  KeysOf <- PodKeys
  BucketOf <- FirstTwoCollide
  MaxEntries = 3
  None = None
INVARIANTS
  TypeOK
  OneMap
  ResetEmpties
PROPERTIES
  CallsReturn
