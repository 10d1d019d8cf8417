SPECIFICATION NavSpec
CONSTANTS
  Links <- Linked
  Episodes = {"e1"}
  Sources = {"s1"}
  Definitions <- Defined
  Reported <- Members
  Texts = {"", "a"}
  Pages = {"sources", "history"}
  None = None
  Keep = Keep
  MaxClicks = 2
  MaxMoves = 4
  MaxUnseen = 2
  MaxReloads = 1
  MaxRelinks = 0
INVARIANT
  PlaceKept
PROPERTY
  ViewsRestored
CHECK_DEADLOCK FALSE
