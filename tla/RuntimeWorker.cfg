SPECIFICATION Spec
CONSTANTS
  SentKinds <- Everything
  MaxRequests = 4
  MaxTurns = 2
  UiPanics = TRUE
INVARIANTS
  RequestsInOrder
  KnowsWhatWasSaid
  TurnsReportTheirEnd
  AbortsAreNotMultiplied
  ShutdownComesLast
PROPERTY
  ImplementsTurnService
CHECK_DEADLOCK FALSE
