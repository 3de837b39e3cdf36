SPECIFICATION Spec
CONSTANTS
  ta = ta
  tb = tb
  Tokens <- MCTokens
  Selectors = 2
  PerRequests = 5
  PerScan = 4
  RowGoal = 3
  MaxPageSize = 2
  MaxRows = 3
  MaxScan = 5
  MaxCost = 2
INVARIANT RequestBudget
