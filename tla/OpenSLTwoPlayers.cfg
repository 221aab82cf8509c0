SPECIFICATION Spec
CONSTANTS
  Controllers = {fmod}
  PlayThread = fmod
  Players = {p1, p2}
  Buffers = {b1}
  Ring = 2
  Capacity = 2
  None = None
INVARIANT PortIsQuiet
