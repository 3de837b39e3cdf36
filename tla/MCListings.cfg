CONSTANTS
  Things = {1, 2, 3, 4}
  MaxListed = 3
  Periods = 2
  UpstreamPage = 2
  MaxLimit = 2
  Orders <- MCOrders
  MaxChanges = 2
SPECIFICATION ListingSpec
INVARIANTS CompleteIsComplete RefusedForAReason
PROPERTY ListingEnds
