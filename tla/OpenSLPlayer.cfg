SPECIFICATION FairSpec
CONSTANTS
  Controllers = {fmod, feeder}
  PlayThread = fmod
  Players = {p1}
  Buffers = {b1, b2, b3}
  Ring = 3
  Capacity = 2
  None = None
INVARIANTS OutputIsQueued PortIsQuiet StopSilences NoLostWakeup
PROPERTY CallsReturn
