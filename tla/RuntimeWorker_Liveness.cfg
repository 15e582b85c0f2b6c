SPECIFICATION FairSpec
CONSTANTS
  SentKinds <- Conversation
  MaxRequests = 4
  MaxTurns = 2
  UiPanics = TRUE
PROPERTIES
  AbortEndsTheTurn
  ExitStopsTheWorker
  EveryMessageIsTaken
CHECK_DEADLOCK FALSE
