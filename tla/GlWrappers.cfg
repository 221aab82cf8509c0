CONSTANTS
  n1 = n1
  n2 = n2
  n3 = n3
  Textures = {n1, n2, n3}
  None = None
  Slots = 4
  Home <- MCHome
  Programs = {n1, n2}
  l1 = l1
  l2 = l2
  Locations = {l1, l2}
  Layouts <- MCLayouts
  Ways = 2
  States = {0}
  StateHome <- MCStateHome
  Values <- MCValues
SPECIFICATION AllSpec
SYMMETRY Symmetry
INVARIANTS MarksTellStorage UploadsFit CachesAreTransparent
CHECK_DEADLOCK FALSE
