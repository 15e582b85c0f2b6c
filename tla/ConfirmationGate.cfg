SPECIFICATION FairSpec
CONSTANTS
  k = k
  l = l
  m = m
  NoCall = NoCall
  Calls = {k, l, m}
  Barrier = {k}
  Sensitive = {k}
  PerInvocation = {l, m}
  Tool <- Tools
  Plan <- TwoTurns
  MaxOutside = 1
INVARIANTS
  OnlyAllowedCallsRun
  FirstDecisionCounts
  EveryWaitHasItsCard
PROPERTIES
  AnsweredTurnsEnd
  ImplementsPermissions
CHECK_DEADLOCK FALSE
