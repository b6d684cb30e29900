\* Six ticks of budget: five attempts fit, and so does running out of time.
SPECIFICATION RpcFairSpec
CONSTANTS
  Timeout = 6
  DefaultSleep = 1
  Hints <- SomeHints
  MaxGen = 2
INVARIANTS
  BudgetsHold
PROPERTIES
  ReplayedOnlyAfter401
  StaleCallStops
  Returns
CHECK_DEADLOCK FALSE
