SPECIFICATION Spec
CONSTANTS
  Episodes = {"e1", "e2", "e3"}
  Opening = {"e1", "e2"}
  Paused = {"e2"}
  Device = "device"
  Nodes = {"n1", "n2"}
  Links <- Linked
  Report = "report"
  Members <- Reported
  None = None
  MaxPublications = 2
  MaxFaults = 1
  MaxTurns = 3
  MaxPresses = 3
  MaxSpent = 3
PROPERTIES
  ActsOnSelection
CHECK_DEADLOCK FALSE
