SPECIFICATION Spec
CONSTANTS
  p1 = p1
  p2 = p2
  p3 = p3
  m1 = m1
  m2 = m2
  m3 = m3
  NoMac = NoMac
  Procs = {p1, p2, p3}
  Macs = {m1, m2, m3}
  MacsOf <- OwnMacs
  Low = 1
  High = 2
  Overlap = FALSE
  Faults = {"lossy", "signal"}
INVARIANTS ServedIsCurrent NothingLeft
CHECK_DEADLOCK FALSE
