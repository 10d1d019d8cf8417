SPECIFICATION Spec

CONSTANTS
  Channels = {phone}
  LongBodies = {1}
  MaxObs = 1
  MaxStamps = 1
  MaxFaults = 1
  MaxCrashes = 0

INVARIANT
  DeferredSaveArmed

CHECK_DEADLOCK FALSE
