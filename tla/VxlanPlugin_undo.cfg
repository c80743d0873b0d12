SPECIFICATION Spec
CONSTANTS
  Procs = {p1}
  Pods = {c1}
  Addrs = {a1, a2}
  NoAddr = NoAddr
  NoOne = NoOne
  MaxEntries = 2
  MaxAdds = 1
  Kinds = {}
  MaxFaults = 0
SYMMETRY Symmetric
INVARIANTS
  AddKeepsAddress
