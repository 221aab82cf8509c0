CONSTANTS
  Threads = {t1, t2}
  Slots = {s1, s2}
  Files = {f1, f2}
  Fds = {d1, d2, d3}
  None = None
  Length = 2
  MaxPos = 1
  SoftMax = 1
  RetryTarget = 0
  MaxGen = 2
SPECIFICATION Spec
SYMMETRY Symmetry
INVARIANTS
  OneOwner
  ReadsItsOwnFile
  PinnedSlotStays
  CacheIsBounded
PROPERTY ActsAsFiles
