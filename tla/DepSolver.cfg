SPECIFICATION Spec
CONSTANTS
  a = a
  b = b
  c = c
  d = d
  v = v
  e = e
  Names = {a, b, c, d, v, e}
  Packages <- MCPackages
  Graphs <- MCGraphs
INVARIANTS Sound Complete ReportsExact
PROPERTIES Ends
CHECK_DEADLOCK FALSE
