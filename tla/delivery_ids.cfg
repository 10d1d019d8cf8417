SPECIFICATION Spec

CONSTANTS
  Channels = {phone}
  LongBodies = {}
  MaxObs = 0
  MaxStamps = 2
  MaxFaults = 0
  MaxCrashes = 1

INVARIANT
  IdNamesOneRequest

CHECK_DEADLOCK FALSE
