SPECIFICATION Spec

CONSTANTS
  Channels = {phone}
  LongBodies = {1}
  MaxObs = 1
  MaxStamps = 1
  MaxFaults = 0
  MaxCrashes = 0

PROPERTY
  DrainedBeforeReconciliation

CHECK_DEADLOCK FALSE
