SPECIFICATION Spec
CONSTANTS
  Panels = {p1, p2}
  General = {"timings", "consumer"}
  Policies = {"policy"}
  Methods = {"phone", "mail"}
  Profiles = {"profile"}
  Inline = "inline"
  Switch = "notifications"
  Opening <- Start
  Typed <- Entries
  Elsewhere <- Changes
  Sources = {"door"}
  None = None
  MaxEdits = 2
  MaxSaves = 2
  MaxOthers = 1
  MaxFaults = 0
  MaxMoves = 2
  MaxSpent = 4


PROPERTIES
  SwitchConverges
CHECK_DEADLOCK FALSE
