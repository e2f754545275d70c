SPECIFICATION ReliableSpec
CONSTANTS
  pkgA1 = pkgA1
  pkgA2 = pkgA2
  pkgB = pkgB
  pkgC = pkgC
  main = main
  i386 = i386
  amd64 = amd64
  arm = arm
  All = All
  Partial = Partial
  Missing = Missing
  latest = latest
  stable = stable
  sid = sid
  ReleaseFile = ReleaseFile
  SignatureFile = SignatureFile
  p1 = p1
  p2 = p2
  Packages = {pkgA1}
  Newer <- MCNewer
  Components = {main}
  Architectures = {i386}
  ComponentOf <- MCComponentOf
  ArchOf <- MCArchOf
  Tracks = {sid}
  Snapshot = sid
  Names = {latest}
  MaxRelease = 1
  Procs = {p1, p2}
  Commands = {"commit", "index", "remove"}
  Overlap = TRUE
INVARIANTS NumbersContiguous LinkLeadsToRelease
PROPERTIES Terminates
CHECK_DEADLOCK FALSE
