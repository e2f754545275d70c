SPECIFICATION ReliableSpec
CONSTANTS
  dsc1 = dsc1  diff1 = diff1  orig = orig  deb1 = deb1
  dsc2 = dsc2  diff2 = diff2  dsc3 = dsc3  tar3 = tar3
  good = good  other = other  torn = torn  foo1 = foo1  foo2 = foo2  bar = bar
  upFoo = upFoo  upBar = upBar
  src1 = src1  src2 = src2  bin = bin  cut = cut  rebuilt = rebuilt
  native = native  broken = broken  unsigned = unsigned  p1 = p1  p2 = p2
  Files = {dsc1, diff1, orig, deb1, dsc2, diff2, dsc3, tar3}
  Contents = {good, other, torn}
  Torn = torn
  Absent = Absent
  Readable = {good}
  Kind <- MCKind
  Sources = {foo1, foo2, bar}
  Belongs <- MCBelongs
  Native = {bar}
  Upstreams = {upFoo, upBar}
  Upstream <- MCUpstream
  KeyPrefix <- MCKeyPrefix
  Uploads = {src1, bin, cut}
  Source <- MCSource
  Listed <- MCListed
  Hash <- MCHash
  Signed = {src1, bin, cut}
  Malformed = {}
  MaxDrops = 2
  Procs = {p1, p2}
  Overlap = TRUE
PROPERTIES StoredIsIndexed UploadsProcessed
CHECK_DEADLOCK FALSE
