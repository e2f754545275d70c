SPECIFICATION Spec
CONSTANTS
  pkgA1 = pkgA1
  pkgA2 = pkgA2
  pkgB = pkgB
  pkgC = pkgC
  main = main
  i386 = i386
  amd64 = amd64
  arm = arm
  All = All
  Partial = Partial
  Missing = Missing
  latest = latest
  stable = stable
  sid = sid
  ReleaseFile = ReleaseFile
  SignatureFile = SignatureFile
  p1 = p1
  p2 = p2
  Packages = {pkgA1, pkgC}
  Newer <- MCNewer
  Components = {main}
  Architectures = {i386}
  ComponentOf <- MCComponentOf
  ArchOf <- MCArchOf
  Tracks = {sid}
  Snapshot = sid
  Names = {latest}
  MaxRelease = 1
  Procs = {p1}
  Commands = {"index", "commit", "rebuild"}
  Overlap = FALSE
INVARIANTS TypeOK RecordedIsIndexed
PROPERTIES RecordImmutable TreeImmutable RebuildRestores ImplementsLog
CHECK_DEADLOCK FALSE
