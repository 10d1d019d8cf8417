SPECIFICATION FairSpec

CONSTANTS
  Channels = {phone}
  LongBodies = {}
  MaxObs = 1
  MaxStamps = 1
  MaxFaults = 1
  MaxCrashes = 0

INVARIANTS
  FinalSaveComplete
  PendingHasOwner

PROPERTY
  Progress

CHECK_DEADLOCK FALSE
