SPECIFICATION Spec
CONSTANTS
  m1 = m1
  m2 = m2
  c1 = c1
  c2 = c2
  Threads = {t1, t2}
  Objects = {m1, m2, c1, c2}
  Conds = {c1, c2}
  StaticWord <- MCStaticWord
  AskedKinds <- MCAskedKinds
  N = 3
  Home <- MCHome
  None = None
SYMMETRY Symmetry
INVARIANT OneRealObject
PROPERTY ActsAsObjectSet
