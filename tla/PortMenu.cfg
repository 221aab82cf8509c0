SPECIFICATION Spec
CONSTANTS
  Profiles = {p1, p2}
  Balances = {0, 1}
  Slots = 2
  Settings = {off, german}
  Default = off
  MaxDones = 2
  Missing = Missing
  Damaged = Damaged
  NoText = NoText
  BadText = BadText
  None = None
SYMMETRY Symmetry
INVARIANTS MarkIsExact DoneApplies EditIsBackedUp
PROPERTIES BackupsAreKept SaveIsAtomic SettingsAreAtomic
