CONSTANTS
  Threads = {t1, t2}
  config = config
  game = game
  k1 = k1
  v1 = v1
  old = old
  new = new
  Files = {config, game}
  Config = config
  TopCopies <- MCTopCopies
  UserCopies <- MCUserCopies
  Keys = {k1, k2, k3}
  Values = {v1, v2}
  Cut = Cut
  CFG_MAX = 2
  Absent = Absent
  PageCount = 3
  Sizes = {1, 2, 3}
  FALLBACK_MIN = 1
  FALLBACK_BUDGET = 4
  FALLBACK_SLOTS = 2
  Watched = {t1, t2, t3}
  WATCH_SLOTS = 2
  Kinds = {"bridge", "native"}
  Vacant = Vacant
  Claimed = Claimed
  REPORT_SLOTS = 2
  Modulus = 4
  MaxReports = 10
SPECIFICATION AllSpec
SYMMETRY Symmetry
INVARIANTS NothingIsLost ReadsLastWrite PointersGoHome SlotsAreOwned ReportsAreWhole
