SPECIFICATION AllSpec
CONSTANTS
  Waiters = {w1, w2, w3}
  Destroyer = d
  Other = other
  None = None
  Cap = 4
  Renderers = {r1, r2, r3}
  maxCount = 2
INVARIANTS FreedIsUnused AwakenedMayGo FenceIsComplete
PROPERTY WaitsReturn
