SPECIFICATION Spec
CONSTANTS
  a = a
  b = b
  c = c
  d = d
  v = v
  e = e
  Names = {a, b, c, d, v, e}
  Packages <- MCPackages
  Graphs <- DeadGraphs
INVARIANTS NoneMeansNoSolution
CHECK_DEADLOCK FALSE
