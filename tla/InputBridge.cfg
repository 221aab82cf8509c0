SPECIFICATION InputSpec
CONSTANTS
  Fingers = {f1, f2}
  Pointer = pointer
  QueueCap = 4
  Missing = 2
  KeyButtons = {"circle"}
INVARIANT GameSeesTheSame
PROPERTY StaleIsBlocked
INVARIANT CommitIsOnItsWay
