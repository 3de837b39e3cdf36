SPECIFICATION Spec
CONSTANTS
  MaxTargets = 4
  MaxProviderRequests = 3
  MaxScannedItems = 4
  MaxCost = 2
  MaxSkipped = 1
  Limits <- MCLimits
INVARIANTS BudgetsAddUp CoverageAndStatus CompleteUnlessSaid
