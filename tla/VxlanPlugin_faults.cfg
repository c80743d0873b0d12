SPECIFICATION Spec
CONSTANTS
  Procs = {p1, p2}
  Pods = {c1, c2}
  Addrs = {a1, a2}
  NoAddr = NoAddr
  NoOne = NoOne
  MaxEntries = 1
  MaxAdds = 3
  Kinds = {"fail", "kill", "netns", "lose", "reboot"}
  MaxFaults = 2
SYMMETRY Symmetric
INVARIANTS
  TypeOK
  LinkAsTold
  RedirectsHit
