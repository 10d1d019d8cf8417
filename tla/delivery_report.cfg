SPECIFICATION Spec
CONSTANTS
  Episodes = {e1, e2}
  Phones = {p1}
  MaxAlerts = 3
  MaxUpdates = 1
  MaxRestarts = 1
  MaxOutbox = 4
INVARIANT SupersededNeverReplayed
CHECK_DEADLOCK FALSE
