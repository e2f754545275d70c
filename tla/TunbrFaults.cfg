SPECIFICATION Spec
CONSTANTS
  p1 = p1
  p2 = p2
  p3 = p3
  m1 = m1
  m2 = m2
  m3 = m3
  NoMac = NoMac
  Procs = {p1, p2, p3}
  Macs = {m1, m2, m3}
  MacsOf <- SharedMacs
  Low = 1
  High = 2
  Overlap = TRUE
  Faults = {"crash", "errors"}
INVARIANTS LeaseHeld ConflictFree PrivateLeases DnsmasqBack
PROPERTIES NothingLost
SYMMETRY Symmetry
CHECK_DEADLOCK FALSE
