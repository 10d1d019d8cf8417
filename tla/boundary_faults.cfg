SPECIFICATION Spec

CONSTANTS
  Channels = {phone}
  LongBodies = {2}
  MaxObs = 0
  MaxStamps = 2
  MaxFaults = 1
  MaxCrashes = 0

INVARIANTS
  TypeOK
  OnlyDurableFacts
  FactBeforeRequest
  IdNamesOneRequest

PROPERTY
  ReportsSavedBeforeFired

CHECK_DEADLOCK FALSE
