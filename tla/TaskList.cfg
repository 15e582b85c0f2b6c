SPECIFICATION Spec
CONSTANTS
  t1 = t1
  t2 = t2
  t3 = t3
  NoTask = NoTask
  Task <- ThreeTasks
  Start <- TwoOfThem
  MaxCalls = 2
  MaxKeys = 1
SYMMETRY Alike
INVARIANTS
  EveryTaskIsListedOnce
  CompletionFindsAllWaiting
  PanelShowsTheFile
  TasksAreKept
CHECK_DEADLOCK FALSE
