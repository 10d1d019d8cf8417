SPECIFICATION Spec

CONSTANTS
  Channels = {phone, tts}
  LongBodies = {1}
  MaxObs = 0
  MaxStamps = 1
  MaxFaults = 1
  MaxCrashes = 1

INVARIANTS
  FactsAtMostOnce
  SentAtMostOnce
  IInv

PROPERTY
  ImplementsPromise

CHECK_DEADLOCK FALSE
