SPECIFICATION FairSpec
CONSTANTS
  a1 = a1
  a2 = a2
  Main = Main
  Agent <- TwoAgents
  MaxTurns = 1
  MaxRounds = 2
INVARIANTS
  BacklogIsHeard
  OutputBeforeTheRow
  LateEndsAreShown
PROPERTIES
  ImplementsAgentReports
  TurnsEnd
CHECK_DEADLOCK FALSE
