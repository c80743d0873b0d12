SPECIFICATION Spec
CONSTANTS
  Procs = {p1, p2, p3}
  Pods = {c1, c2, c3}
  Addrs = {a1, a2, a3}
  NoAddr = NoAddr
  NoOne = NoOne
  MaxEntries = 3
  MaxAdds = 3
  Kinds = {}
  MaxFaults = 0
SYMMETRY Symmetric
INVARIANTS
  EntriesLive
  FailedAddReleases
  
  VxlanSettles
