SPECIFICATION Spec
CONSTANTS
  Cards = {c1}
  Sections = {"nodes", "history"}
  History = "history"
  Contents <- Catalogs
  Opening <- Before
  Evidence = {"quiet", "problem"}
  ContextIds <- Rows
  PageRows = 2
  Workers = 2
  None = None
  MaxRevision = 3
  MaxQueue = 3
  MaxPublications = 3
  MaxFaults = 1
  MaxTurns = 3
  MaxSpent = 4
INVARIANTS
  CatalogSound OnlyFaultsReported
PROPERTIES
  CatalogArrives PanelConverges
CHECK_DEADLOCK FALSE
