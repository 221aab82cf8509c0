CONSTANTS
  Threads = {t1, t2, t3}
  Slots = {s1, s2}
  Files = {f1}
  Fds = {d1, d2, d3}
  None = None
  Length = 1
  MaxPos = 1
  SoftMax = 2
  RetryTarget = 0
  MaxGen = 1
SPECIFICATION Spec
SYMMETRY Symmetry
INVARIANTS
  SharedReadIsAtomic
  SleeperHasWaker
