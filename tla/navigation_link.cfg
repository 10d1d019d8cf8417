SPECIFICATION RelinkSpec
CONSTANTS
  Links <- Linked
  Episodes = {"e1"}
  Sources = {"s1"}
  Definitions <- Defined
  Reported <- Members
  Texts = {"", "a"}
  Pages = {"sources", "policies", "history"}
  None = None
  Keep = Keep
  MaxClicks = 3
  MaxMoves = 2
  MaxUnseen = 1
  MaxReloads = 1
  MaxRelinks = 1
PROPERTIES
  LinkOpens
CHECK_DEADLOCK FALSE
