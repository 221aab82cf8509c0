SPECIFICATION FairSpec
CONSTANTS
  Workers = {w1, w2}
  Callers = {c1, c2}
  Heights = {3}
  Strip = 2
  Generations = 2
  None = None
INVARIANTS WorkerHasLiveJob RowsConvertedOnce
PROPERTY CallsReturn
