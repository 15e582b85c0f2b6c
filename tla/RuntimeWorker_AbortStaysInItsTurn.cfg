SPECIFICATION Spec
CONSTANTS
  SentKinds <- Conversation
  MaxRequests = 3
  MaxTurns = 1
  UiPanics = FALSE
PROPERTY AbortStaysInItsTurn
CHECK_DEADLOCK FALSE
