SPECIFICATION Spec
CONSTANTS
  Panels = {p1}
  General = {"timings", "consumer"}
  Policies = {"policy"}
  Methods = {"phone", "mail"}
  Profiles = {"profile"}
  Inline = "inline"
  Switch = "notifications"
  Opening <- Start
  Typed <- FieldEntries
  Elsewhere <- FieldChanges
  Sources = {"door"}
  None = None
  MaxEdits = 3
  MaxSaves = 3
  MaxOthers = 1
  MaxFaults = 0
  MaxMoves = 0
  MaxSpent = 7
PROPERTIES
  FieldsNotOverwritten
CHECK_DEADLOCK FALSE
