SPECIFICATION Spec
CONSTANTS
  MaxRequests = 2
  MaxTurns = 2
  Changes <- MCChanges
CHECK_DEADLOCK FALSE
INVARIANT TurnRunsOnTheSetting
