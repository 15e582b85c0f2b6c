SPECIFICATION Spec
CONSTANTS
  InitialMode = "auto"
  MaxRequests = 3
  MaxPlanTools = 1
INVARIANTS
  SerialChangeReachesEngine
  UiShowsSessionMode
PROPERTIES
  UiSettles
