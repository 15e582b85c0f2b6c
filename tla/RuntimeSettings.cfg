SPECIFICATION Spec
CONSTANTS
  MaxRequests = 3
  MaxTurns = 1
  Changes <- MCChanges
CHECK_DEADLOCK FALSE
INVARIANTS
  NoIntentIsLost
  LastRequestWins
  IntentIsKept
  UIShowsTheWorker
  MarkerSettles
  SavedIsOnDisk
