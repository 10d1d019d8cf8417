SPECIFICATION Spec
CONSTANTS
  Episodes = {e1, e2}
  Phones = {p1, p2}
  MaxAlerts = 3
  MaxUpdates = 1
  MaxRestarts = 1
  MaxOutbox = 4
INVARIANTS
  OutboxCurrent
  AlertsKept
  PhonesShowRecord
PROPERTY
  NoRepeatedAlert
SYMMETRY PhoneSymmetry
CHECK_DEADLOCK FALSE
