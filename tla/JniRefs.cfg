CONSTANTS
  Threads = {t1, t2}
  Objects = {o1, o2, o3}
  Pool = {p1}
  HeapEntries = {h1, h2}
  Length = 1
  Null = Null
  MaxRefs = 1
SPECIFICATION RefsSpec
SYMMETRY Symmetry
INVARIANTS CountsAreExact NothingLeaks
