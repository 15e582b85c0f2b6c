SPECIFICATION FairSpec
CONSTANTS
  Elsewhere = {elsewhere}
  DisplayLimit = 1
  MaxRequests = 3
  MaxCrashes = 1
  MaxCalls = 2
INVARIANTS
  HandedOnceInOrder
  AnswersAreTrue
  NoRequestIsForgotten
  OnceMeansOnce
PROPERTIES
  EveryRequestIsAnswered
CHECK_DEADLOCK FALSE
